---- MODULE Spec2Model ----
(***************************************************************************)
(* A model of angry-ai/angry_ai.py: the ACTION protocol (parse_action),    *)
(* the path sandbox (validate_relative_path, resolve_repo_path and the     *)
(* checks agent_loop makes at dispatch), the exact-replace tool            *)
(* (tool_edit_file), the context manager (prune_history) and the control   *)
(* loop (agent_loop).                                                      *)
(*                                                                         *)
(* Text is a sequence of characters, a path is the sequence of its         *)
(* '/'-separated segments, a model reply is the sequence of its lines and  *)
(* a line the sequence of its tokens.  Each component has a specification  *)
(* of its own over its own variables; the variables of the other           *)
(* components stay at their idle values.                                   *)
(***************************************************************************)
EXTENDS Integers, Sequences, FiniteSets, TLC

VARIABLES
    \* tool_edit_file
    file,           \* the target on disk: [kind, data], data the file's bytes
    file0,          \* the target as it was before the call
    old_str,        \* argument old_str
    new_str,        \* argument new_str
    edit_result,    \* the returned message, msg "none" before the call
    \* the path sandbox
    action,         \* the directive name of the reply's ACTION line
    path,           \* its path argument, as the sequence of its segments
    validated,      \* what validate_relative_path(path) did
    resolved,       \* what resolve_repo_path(path, repo_root) did
    dispatched,     \* what one step of agent_loop did with the reply
    \* parse_action
    llm_output,     \* the model's reply: its lines, each the sequence of its tokens
    parsed,         \* what parse_action(llm_output) did
    \* prune_history
    prune_in,       \* argument history
    max_turns,      \* argument max_turns
    prune_stage,    \* how many times prune_history has been applied: 0, 1, 2
    pruned_once,    \* prune_history(prune_in, max_turns)
    pruned_twice,   \* prune_history(pruned_once, max_turns)
    \* agent_loop
    history,        \* the transcript
    step,           \* the loop variable of "for step in range(1, max_steps + 1)"
    pc,             \* where the loop is: top, chat, validation, halted, max_steps_reached
    needs_validation,
    last_change_description,
    retry,          \* the loop variable of "for retry in range(max_validation_retries)"
    ssh_validation_cmd,  \* "" when no validation command is configured
    last_reply,     \* what the latest reply of the model was handled as
    max_steps,      \* argument max_steps
    llm_calls,      \* how many times llm.chat has been called
    tool,           \* what the tool dispatched in this step reported, "none" if none was
    cycle,          \* what the validation loop of this step did
    failed_validations,  \* VALIDATION_FAILED notices since the last VALIDATION_SUCCESS
    counts,         \* calls made: commit_and_push_changes and the validation command
                    \* in this step, the validation command and the tools of
                    \* EDIT_FILE and WRITE_FILE that reported success in the whole run
    files,          \* where the content of the last successful EDIT_FILE or WRITE_FILE
                    \* is, and what the git checkout of this step reported
    \* the size of tool results
    result_call,    \* a tool call: the tool and the sizes of what it works on
    result_chars,   \* how many characters of its result the tool copied from them
    result_notice,  \* the line counts of tool_read_file's truncation notice, if any
    result_lines,   \* what tool_read_file_lines returned: the numbered lines, the end
    \* tool_run_command
    command,        \* argument command: its whitespace-delimited tokens
    allowed_commands,  \* argument allowed_commands, the operator's whitelist
    run_result,     \* what the call did: the message, whether a process was
                    \* started, the programs the shell executed
    \* tool_apply_patch
    patch_text,     \* argument patch_text: its lines
    patch_result,   \* the returned message and the runs of patch(1) made, in order
    \* tool_write_file followed by tool_read_file
    write_path,     \* what is at the path: nothing, a directory, or a file's bytes
    write_content,  \* argument content of tool_write_file
    write_result,   \* what tool_write_file returned
    read_result,    \* what tool_read_file returned: the message and the text in it
    \* parse_action on an EDIT_FILE or WRITE_FILE reply, as the loop calls it
    block_reply,    \* the reply: the action and the blocks the model wrote after it
    block_parsed,   \* parse_action's ParsedAction or the ValueError it raised
    block_turn,     \* the user turn the loop appended because of a parse error
    \* the block patterns of test_edit_file_parsing.py and test_edit_file_fallback.py
    pattern_input,  \* a body: how its blocks are laid out
    pattern_result, \* what the strict pattern, the lenient pattern and
                    \* parse_edit_file_with_fallback make of it
    \* tool_edit_multiple
    multi_payload,  \* the payload: its JSON form and the entries of the array
    multi_result    \* the returned message and the files the call has changed

editVars == <<file, file0, old_str, new_str, edit_result>>
pathVars == <<action, path, validated, resolved, dispatched>>
parseVars == <<llm_output, parsed>>
pruneVars == <<prune_in, max_turns, prune_stage, pruned_once, pruned_twice>>
loopVars == <<history, step, pc, needs_validation, last_change_description, retry,
              ssh_validation_cmd, last_reply, max_steps, llm_calls, tool, cycle,
              failed_validations, counts, files>>
resultVars == <<result_call, result_chars, result_notice, result_lines>>
commandVars == <<command, allowed_commands, run_result>>
patchVars == <<patch_text, patch_result>>
writeVars == <<write_path, write_content, write_result, read_result>>
blockVars == <<block_reply, block_parsed, block_turn>>
patternVars == <<pattern_input, pattern_result>>
multiVars == <<multi_payload, multi_result>>
vars == <<editVars, pathVars, parseVars, pruneVars, loopVars, resultVars, commandVars,
          patchVars, writeVars, blockVars, patternVars, multiVars>>

(***************************************************************************)
(* Bounds of the model                                                     *)
(***************************************************************************)
MaxContentLen == 3
MaxOldLen == 2
MaxNewLen == 1
MaxPathLen == 3
MaxLines == 3
MaxHistory == 6
MaxBudget == 2
\* agent_loop's parameter max_steps: in the long runs, in the short runs at most
MaxSteps == 17
MaxRunSteps == 4
StepsDone == 13
MaxFileLines == 3
MaxCommandTokens == 3
MaxPatchLines == 4
MaxBlockLines == 3
MaxWhitespace == 2
MaxBlockTokens == 3
MaxEdits == 2

(***************************************************************************)
(* Text                                                                    *)
(***************************************************************************)
\* The characters of the model: a letter, a line feed and a carriage return.
Chars == {"a", "LF", "CR"}

RECURSIVE SeqsUpTo(_, _)
SeqsUpTo(S, n) ==
    IF n = 0 THEN {<<>>}
    ELSE LET shorter == SeqsUpTo(S, n - 1)
         IN  shorter \cup {Append(s, x) : s \in {t \in shorter : Len(t) = n - 1}, x \in S}

\* s[i..] as Python slices it
Drop(s, n) == SubSeq(s, n + 1, Len(s))

StartsWith(s, p) == Len(s) >= Len(p) /\ SubSeq(s, 1, Len(p)) = p

\* Python: old in content
RECURSIVE str_contains(_, _)
str_contains(s, sub) ==
    IF StartsWith(s, sub) THEN TRUE
    ELSE IF s = <<>> THEN FALSE
    ELSE str_contains(Tail(s), sub)

\* Python: content.count(old), the number of non-overlapping occurrences found
\* scanning left to right; Len + 1 for the empty string.
RECURSIVE str_count(_, _)
str_count(s, sub) ==
    IF sub = <<>> THEN Len(s) + 1
    ELSE IF Len(s) < Len(sub) THEN 0
    ELSE IF StartsWith(s, sub) THEN 1 + str_count(Drop(s, Len(sub)), sub)
    ELSE str_count(Tail(s), sub)

\* Python: content.replace(old, new), every non-overlapping occurrence replaced.
RECURSIVE str_replace(_, _, _)
str_replace(s, sub, new) ==
    IF sub = <<>>
    THEN IF s = <<>> THEN new
         ELSE new \o <<Head(s)>> \o str_replace(Tail(s), sub, new)
    ELSE IF Len(s) < Len(sub) THEN s
    ELSE IF StartsWith(s, sub) THEN new \o str_replace(Drop(s, Len(sub)), sub, new)
    ELSE <<Head(s)>> \o str_replace(Tail(s), sub, new)

\* Path.read_text(encoding="utf-8", errors="replace"): text mode with universal
\* newlines, so "\r\n" and a lone "\r" are read as "\n".
RECURSIVE read_text(_)
read_text(bytes) ==
    IF bytes = <<>> THEN <<>>
    ELSE IF Head(bytes) = "CR"
    THEN IF Len(bytes) >= 2 /\ bytes[2] = "LF"
         THEN <<"LF">> \o read_text(Drop(bytes, 2))
         ELSE <<"LF">> \o read_text(Tail(bytes))
    ELSE <<Head(bytes)>> \o read_text(Tail(bytes))

\* Path.write_text(text, encoding="utf-8"): "\n" is written as os.linesep, which
\* is "\n" on the Unix hosts the program runs on; every other character as is.
write_text(text) == text

(***************************************************************************)
(* parse_action: the choice of the ACTION line                             *)
(*                                                                         *)
(* A line is the sequence of its tokens: the literal "ACTION:", a run of   *)
(* blanks "SP", an upper-case word (a directive name), or lower-case text  *)
(* ("x" a word or relative path, "/x" an absolute path).  In the lines of  *)
(* the model no two upper-case tokens are adjacent.                        *)
(***************************************************************************)
LineForms == {
    <<"ACTION:", "SP", "READ_FILE", "SP", "x">>,
    <<"ACTION:", "SP", "READ_FILE", "SP", "/x">>,
    <<"ACTION:", "SP", "HALT">>,
    <<"ACTION:", "HALT", "SP">>,
    <<"SP", "ACTION:", "SP", "HALT">>,
    <<"ACTION:", "SP", "x">>,
    <<"ACTION:">>,
    <<"HALT", "SP", "x">>,
    <<"x">>,
    <<>> }

Replies == SeqsUpTo(LineForms, MaxLines)

\* [A-Z_]+ matches at the start of these tokens
IsUpperToken(t) == t \in {"ACTION:", "READ_FILE", "HALT"}

\* \s* from token k of line j: blanks, line ends and blank lines are consumed;
\* the place of the first token that is not a blank, <<0, 0>> at the end of text
RECURSIVE SkipWhitespace(_, _, _)
SkipWhitespace(lines, j, k) ==
    IF j > Len(lines) THEN <<0, 0>>
    ELSE IF k > Len(lines[j]) THEN SkipWhitespace(lines, j + 1, 1)
    ELSE IF lines[j][k] = "SP" THEN SkipWhitespace(lines, j, k + 1)
    ELSE <<j, k>>

NoMatch == [found |-> FALSE, line |-> 0, group1 |-> "", group2 |-> <<>>]

\* ACTION_RE = ^ACTION:\s*([A-Z_]+)(.*)$ (re.MULTILINE) tried at the start of
\* line i: the line the match ends on and its two groups
ACTION_RE_MatchAt(lines, i) ==
    IF lines[i] = <<>> \/ lines[i][1] # "ACTION:" THEN NoMatch
    ELSE LET pos == SkipWhitespace(lines, i, 2)
         IN  IF pos = <<0, 0>> THEN NoMatch
             ELSE LET t == lines[pos[1]][pos[2]]
                      after == Drop(lines[pos[1]], pos[2])
                  IN  IF ~IsUpperToken(t) THEN NoMatch
                      ELSE IF t = "ACTION:"
                      THEN [found |-> TRUE, line |-> pos[1], group1 |-> "ACTION",
                            group2 |-> <<":">> \o after]
                      ELSE [found |-> TRUE, line |-> pos[1], group1 |-> t,
                            group2 |-> after]

\* ACTION_RE.finditer(llm_output): the matches from line i on, left to right,
\* the search resuming after the end of each match
RECURSIVE finditer(_, _)
finditer(lines, i) ==
    IF i > Len(lines) THEN <<>>
    ELSE LET m == ACTION_RE_MatchAt(lines, i)
         IN  IF m.found THEN <<m>> \o finditer(lines, m.line + 1)
             ELSE finditer(lines, i + 1)

\* str.strip() on a sequence of tokens
RECURSIVE lstrip(_)
lstrip(ts) == IF ts # <<>> /\ Head(ts) = "SP" THEN lstrip(Tail(ts)) ELSE ts

RECURSIVE rstrip(_)
rstrip(ts) ==
    IF ts # <<>> /\ ts[Len(ts)] = "SP" THEN rstrip(SubSeq(ts, 1, Len(ts) - 1)) ELSE ts

strip(ts) == rstrip(lstrip(ts))

\* validate_relative_path on an argument of the reply
ArgumentCheck(argument) ==
    IF argument[1] = "/x" THEN "ValueError_absolute" ELSE "ok"

\* parse_action for the directives whose argument is the rest of the line
parse_action_of(lines) ==
    LET matches == finditer(lines, 1)
    IN  IF matches = <<>>
        THEN [state |-> "ValueError_no_ACTION_line", action |-> "", argument |-> <<>>]
        ELSE LET m == matches[Len(matches)]
                 argument == strip(m.group2)
             IN  IF /\ m.group1 \in {"READ_FILE", "LIST_DIR"}
                    /\ argument # <<>>
                    /\ ArgumentCheck(argument) # "ok"
                 THEN [state |-> ArgumentCheck(argument), action |-> "",
                       argument |-> <<>>]
                 ELSE [state |-> "returned", action |-> m.group1,
                       argument |-> argument]

NotParsed == [state |-> "none", action |-> "", argument |-> <<>>]

parse_action ==
    /\ parsed = NotParsed
    /\ parsed' = parse_action_of(llm_output)
    /\ UNCHANGED llm_output
    /\ UNCHANGED <<editVars, pathVars, pruneVars, loopVars, resultVars, commandVars, patchVars,
                   writeVars, blockVars,
                   patternVars, multiVars>>

(***************************************************************************)
(* The path sandbox                                                        *)
(*                                                                         *)
(* A path string is the sequence of its '/'-separated segments: "" is      *)
(* <<"">>, "/etc" is <<"", "etc">>, "a//b" is <<"a", "", "b">>.  A         *)
(* location of the file system is the sequence of names leading to it from *)
(* "/".  The file system holds the repository root /r, a sibling /rx whose *)
(* name begins with the root's, a directory /o outside the root, and in    *)
(* the root a symlink l that points to /o.                                 *)
(***************************************************************************)
Segments == {"", ".", "..", "..b", "a", "l", "rx", "~"}

Paths == SeqsUpTo(Segments, MaxPathLen) \ {<<>>}

\* repo_root as main() resolves it
repo_root == <<"r">>

SymlinkTarget(loc) == IF loc = <<"r", "l">> THEN <<"o">> ELSE loc

\* str.startswith of one segment: the segment's text begins with prefix
SegmentStartsWith(seg, prefix) ==
    \/ prefix = ""
    \/ seg = prefix
    \/ prefix = ".." /\ seg = "..b"
    \/ prefix = "r" /\ seg = "rx"

IsAbsolute(p) == Len(p) >= 2 /\ p[1] = ""

\* os.path.normpath of a relative path: "" and "." segments dropped, a ".."
\* cancels the segment before it unless there is none or it is a ".." itself.
RECURSIVE NormComps(_, _)
NormComps(comps, acc) ==
    IF comps = <<>> THEN acc
    ELSE LET c == Head(comps)
         IN  IF c \in {"", "."} THEN NormComps(Tail(comps), acc)
             ELSE IF c # ".." \/ acc = <<>> \/ acc[Len(acc)] = ".."
             THEN NormComps(Tail(comps), Append(acc, c))
             ELSE NormComps(Tail(comps), SubSeq(acc, 1, Len(acc) - 1))

normpath(p) ==
    LET comps == NormComps(p, <<>>)
    IN  IF comps = <<>> THEN <<".">> ELSE comps

\* validate_relative_path testing the path as written, not normalized
validate_relative_path_unnormalized(p) ==
    IF p = <<"">> THEN "ValueError_empty"
    ELSE IF IsAbsolute(p) THEN "ValueError_absolute"
    ELSE IF SegmentStartsWith(p[1], "..") THEN "ValueError_escape"
    ELSE IF SegmentStartsWith(p[1], "~") THEN "ValueError_home"
    ELSE "ok"

\* validate_relative_path: "ok", or the ValueError it raises
validate_relative_path_of(p) ==
    IF p = <<"">> THEN "ValueError_empty"
    ELSE IF IsAbsolute(p) THEN "ValueError_absolute"
    ELSE LET normalized == normpath(p)
         IN  IF \/ SegmentStartsWith(normalized[1], "..")
                \/ \E i \in 2..Len(normalized) : SegmentStartsWith(normalized[i], "..")
             THEN "ValueError_escape"
             ELSE IF SegmentStartsWith(p[1], "~") THEN "ValueError_home"
             ELSE "ok"

\* os.path.realpath, as Path.resolve() uses it: the segments are walked from the
\* location reached so far, ".." goes to the parent of the resolved location,
\* and a symlink is replaced by its target.
RECURSIVE realpath(_, _)
realpath(loc, segs) ==
    IF segs = <<>> THEN loc
    ELSE LET c == Head(segs)
         IN  IF c \in {"", "."} THEN realpath(loc, Tail(segs))
             ELSE IF c = ".."
             THEN realpath(IF loc = <<>> THEN loc ELSE SubSeq(loc, 1, Len(loc) - 1), Tail(segs))
             ELSE realpath(SymlinkTarget(Append(loc, c)), Tail(segs))

\* (repo_root / p).resolve(): joining an absolute p discards repo_root
ResolveUnderRoot(p) == realpath(IF IsAbsolute(p) THEN <<>> ELSE repo_root, p)

\* Path.relative_to succeeds: loc is root or below it, compared by components
IsRelativeTo(loc, root) == StartsWith(loc, root)

\* str(loc).startswith(str(root)): compared as text
StrStartsWith(loc, root) ==
    /\ Len(loc) >= Len(root)
    /\ SubSeq(loc, 1, Len(root) - 1) = SubSeq(root, 1, Len(root) - 1)
    /\ SegmentStartsWith(loc[Len(root)], root[Len(root)])

\* resolve_repo_path comparing the paths as text, as the other dispatch branches do
resolve_repo_path_by_text(p) ==
    LET target == ResolveUnderRoot(p)
    IN  IF StrStartsWith(target, repo_root)
        THEN [state |-> "returned", target |-> target]
        ELSE [state |-> "ValueError", target |-> <<>>]

\* resolve_repo_path: the target it returns, or the ValueError it raises
resolve_repo_path_of(p) ==
    LET target == ResolveUnderRoot(p)
    IN  IF IsRelativeTo(target, repo_root)
        THEN [state |-> "returned", target |-> target]
        ELSE [state |-> "ValueError", target |-> <<>>]

NoDispatch == [state |-> "none", parse |-> "none", turn |-> "none", tool |-> "none", at |-> <<>>]

PathUntouched ==
    /\ validated = "none"
    /\ resolved = [state |-> "none", target |-> <<>>]
    /\ dispatched = NoDispatch

validate_relative_path ==
    /\ PathUntouched
    /\ validated' = validate_relative_path_of(path)
    /\ UNCHANGED <<action, path, resolved, dispatched>>
    /\ UNCHANGED <<editVars, parseVars, pruneVars, loopVars, resultVars, commandVars, patchVars,
                   writeVars, blockVars,
                   patternVars, multiVars>>

resolve_repo_path ==
    /\ PathUntouched
    /\ resolved' = resolve_repo_path_of(path)
    /\ UNCHANGED <<action, path, validated, dispatched>>
    /\ UNCHANGED <<editVars, parseVars, pruneVars, loopVars, resultVars, commandVars, patchVars,
                   writeVars, blockVars,
                   patternVars, multiVars>>

(***************************************************************************)
(* One step of agent_loop on a reply whose last ACTION line names a        *)
(* path-bearing directive: parse_action, then the dispatch branch.         *)
(***************************************************************************)
\* dispatched through resolve_repo_path
ResolveDispatched == {"READ_FILE", "LIST_DIR", "EDIT_FILE", "WRITE_FILE", "SCAN_FILE"}
\* dispatched after str(target).startswith(str(repo_root)), the path being the
\* second word of the argument (a missing word is a usage error)
PrefixDispatchedWord == {"GREP", "FIND_FILES", "READ_FILE_LINES", "FIND_DEFINITION",
                         "FIND_REFERENCES"}
\* dispatched after str(target).startswith(str(repo_root)), the path being the
\* whole argument or, for EDIT_MULTIPLE, the "file" of an entry
PrefixDispatchedArg == {"SHOW_DIFF", "RESTORE_FILE", "CHECK_SYNTAX", "EDIT_MULTIPLE"}
\* dispatched with no check of the path
Unchecked == {"GIT_DIFF"}

PathActions == ResolveDispatched \cup PrefixDispatchedWord \cup PrefixDispatchedArg
               \cup Unchecked

\* The ValueError parse_action raises for the path, or "ok"
ParsePathCheck(act, p) ==
    IF act \in {"EDIT_FILE", "WRITE_FILE"} THEN validate_relative_path_of(p)
    ELSE IF act \in {"READ_FILE", "LIST_DIR"} /\ p # <<"">> THEN validate_relative_path_of(p)
    ELSE "ok"

ToolCall(act, target) ==
    [state |-> "done", parse |-> "ok",
     \* tool_show_diff calls path.relative_to(repo_root) outside any try
     turn |-> IF act = "SHOW_DIFF" /\ ~IsRelativeTo(target, repo_root)
              THEN "uncaught_ValueError" ELSE "tool_result",
     tool |-> act, at |-> target]

ToolError(kind) ==
    [state |-> "done", parse |-> "ok", turn |-> kind, tool |-> "none", at |-> <<>>]

DispatchOutcome(act, p) ==
    IF ParsePathCheck(act, p) # "ok"
    THEN [state |-> "done", parse |-> "ValueError",
          turn |-> "corrective_no_valid_ACTION_line", tool |-> "none", at |-> <<>>]
    ELSE IF act \in ResolveDispatched
    THEN LET r == resolve_repo_path_of(p)
         IN  IF r.state = "returned" THEN ToolCall(act, r.target)
             ELSE ToolError("tool_error_outside_root")
    ELSE IF act \in PrefixDispatchedWord /\ p = <<"">>
    THEN ToolError("tool_error_usage")
    ELSE IF act \in PrefixDispatchedWord \cup PrefixDispatchedArg
    THEN LET target == ResolveUnderRoot(p)
         IN  IF ~StrStartsWith(target, repo_root) THEN ToolError("tool_error_outside_root")
             ELSE ToolCall(act, target)
    ELSE ToolCall(act, ResolveUnderRoot(p))

DispatchPath ==
    /\ PathUntouched
    /\ dispatched' = DispatchOutcome(action, path)
    /\ UNCHANGED <<action, path, validated, resolved>>
    /\ UNCHANGED <<editVars, parseVars, pruneVars, loopVars, resultVars, commandVars, patchVars,
                   writeVars, blockVars,
                   patternVars, multiVars>>

(***************************************************************************)
(* tool_edit_file                                                          *)
(***************************************************************************)
EditOutcome(f, old, new) ==
    IF f.kind = "missing" THEN [msg |-> "EDIT_FILE_ERROR_not_exist", count |-> 0, file |-> f]
    ELSE IF f.kind # "file" THEN [msg |-> "EDIT_FILE_ERROR_not_a_file", count |-> 0, file |-> f]
    ELSE LET content == read_text(f.data)
         IN  IF ~str_contains(content, old)
             THEN [msg |-> "EDIT_FILE_ERROR_not_found", count |-> 0, file |-> f]
             ELSE IF str_count(content, old) > 1
             THEN [msg |-> "EDIT_FILE_ERROR_appears_count_times",
                   count |-> str_count(content, old), file |-> f]
             ELSE [msg |-> "EDIT_FILE_OK", count |-> 1,
                   file |-> [kind |-> "file",
                             data |-> write_text(str_replace(content, old, new))]]

tool_edit_file ==
    /\ edit_result.msg = "none"
    /\ LET out == EditOutcome(file, old_str, new_str)
       IN  /\ edit_result' = [msg |-> out.msg, count |-> out.count]
           /\ file' = out.file
    /\ UNCHANGED <<file0, old_str, new_str>>
    /\ UNCHANGED <<pathVars, parseVars, pruneVars, loopVars, resultVars, commandVars, patchVars,
                   writeVars, blockVars,
                   patternVars, multiVars>>

(***************************************************************************)
(* prune_history                                                           *)
(*                                                                         *)
(* A turn is [role, content, pruned_count, keeping]; content is the class  *)
(* of the text, and the two numbers are those the pruning notice states    *)
(* (0 in every other turn).                                                *)
(***************************************************************************)
Turn(role, content) ==
    [role |-> role, content |-> content, pruned_count |-> 0, keeping |-> 0]

\* the "summary" turn of prune_history
summary(pruned_count, turns) ==
    [role |-> "user", content |-> "CONTEXT_MANAGEMENT_pruned_older_messages",
     pruned_count |-> pruned_count, keeping |-> turns]

\* Python: s[-n:], which is all of s when n = 0
LastMessages(s, n) ==
    IF n = 0 \/ n >= Len(s) THEN s ELSE SubSeq(s, Len(s) - n + 1, Len(s))

\* prune_history keeping the oldest messages instead of the most recent
prune_history_keeps_oldest(h, turns) ==
    IF Len(h) <= 2 THEN h
    ELSE LET conversation == Drop(h, 2)
             max_messages == turns * 2
         IN  IF Len(conversation) > max_messages
             THEN SubSeq(h, 1, 2)
                  \o <<summary(Len(conversation) - max_messages, turns)>>
                  \o SubSeq(conversation, 1, max_messages)
             ELSE h

\* prune_history with essential = history[:1]
prune_history_keeps_one(h, turns) ==
    IF Len(h) <= 2 THEN h
    ELSE LET conversation == Drop(h, 2)
             max_messages == turns * 2
         IN  IF Len(conversation) > max_messages
             THEN SubSeq(h, 1, 1)
                  \o <<summary(Len(conversation) - max_messages, turns)>>
                  \o LastMessages(conversation, max_messages)
             ELSE h

\* prune_history keeping one message more than the budget
prune_history_keeps_one_more(h, turns) ==
    IF Len(h) <= 2 THEN h
    ELSE LET conversation == Drop(h, 2)
             max_messages == turns * 2
         IN  IF Len(conversation) > max_messages + 1
             THEN SubSeq(h, 1, 2)
                  \o <<summary(Len(conversation) - max_messages - 1, turns)>>
                  \o LastMessages(conversation, max_messages + 1)
             ELSE h

prune_history(h, turns) ==
    IF Len(h) <= 2 THEN h
    ELSE LET essential == SubSeq(h, 1, 2)
             conversation == Drop(h, 2)
             max_messages == turns * 2
         IN  IF Len(conversation) > max_messages
             THEN LET pruned_count == Len(conversation) - max_messages
                      recent == LastMessages(conversation, max_messages)
                  IN  essential \o <<summary(pruned_count, turns)>> \o recent
             ELSE h

PruneOnce ==
    /\ prune_stage = 0
    /\ pruned_once' = prune_history(prune_in, max_turns)
    /\ prune_stage' = 1
    /\ UNCHANGED <<prune_in, max_turns, pruned_twice>>
    /\ UNCHANGED <<editVars, pathVars, parseVars, loopVars, resultVars, commandVars, patchVars,
                   writeVars, blockVars,
                   patternVars, multiVars>>

PruneTwice ==
    /\ prune_stage = 1
    /\ pruned_twice' = prune_history(pruned_once, max_turns)
    /\ prune_stage' = 2
    /\ UNCHANGED <<prune_in, max_turns, pruned_once>>
    /\ UNCHANGED <<editVars, pathVars, parseVars, loopVars, resultVars, commandVars, patchVars,
                   writeVars, blockVars,
                   patternVars, multiVars>>

(***************************************************************************)
(* agent_loop                                                              *)
(*                                                                         *)
(* The transcript records the role of every turn and the class of its      *)
(* content: a reply of the model, the one user turn that answers it (a     *)
(* corrective instruction or a tool result), a validation notice.  What    *)
(* the latest reply was handled as is in last_reply.  The replies of the   *)
(* model and the outcomes of the tools, of git and of the validation       *)
(* command are chosen by the environment.                                  *)
(***************************************************************************)
\* prune_history(history, max_turns=15)
LoopMaxTurns == 15
max_validation_retries == 3

system_prompt == Turn("system", "wrapper_system_prompt")
bootstrap == Turn("user", "bootstrap_file")
assistant_reply == Turn("assistant", "llm_output")
user_turn == Turn("user", "answer_to_reply")
validation_turn == Turn("user", "validation_notice")

\* no commit, push or validation run has happened in this step
NoCycle == [commit |-> "none", validation |-> "none", notice |-> "none", outcome |-> "none"]

\* what stays as it is in a step that neither edits nor validates
LoopFrame == UNCHANGED <<needs_validation, last_change_description, retry,
                         ssh_validation_cmd, max_steps, llm_calls, cycle,
                         failed_validations, counts, files>>

\* the loop head with the bound of the range one too high
QueryLLM_past_budget ==
    /\ pc = "top"
    /\ step <= max_steps + 1
    /\ history' = prune_history(history, LoopMaxTurns)
    /\ llm_calls' = llm_calls + 1
    /\ tool' = "none"
    /\ cycle' = NoCycle
    /\ pc' = "chat"
    /\ UNCHANGED <<step, needs_validation, last_change_description, retry,
                   ssh_validation_cmd, last_reply, max_steps, failed_validations>>
    /\ counts' = [counts EXCEPT !.commits_in_step = 0, !.validations_in_step = 0]
    /\ files' = [files EXCEPT !.checkout = "none"]
    /\ UNCHANGED <<editVars, pathVars, parseVars, pruneVars, resultVars, commandVars, patchVars,
                   writeVars, blockVars,
                   patternVars, multiVars>>

\* for step in range(1, max_steps + 1): prune the history and query the model;
\* nothing has been dispatched, committed or validated in the new step yet
QueryLLM ==
    /\ pc = "top"
    /\ step <= max_steps
    /\ history' = prune_history(history, LoopMaxTurns)
    /\ llm_calls' = llm_calls + 1
    /\ tool' = "none"
    /\ cycle' = NoCycle
    /\ pc' = "chat"
    /\ UNCHANGED <<step, needs_validation, last_change_description, retry,
                   ssh_validation_cmd, last_reply, max_steps, failed_validations>>
    /\ counts' = [counts EXCEPT !.commits_in_step = 0, !.validations_in_step = 0]
    /\ files' = [files EXCEPT !.checkout = "none"]
    /\ UNCHANGED <<editVars, pathVars, parseVars, pruneVars, resultVars, commandVars, patchVars,
                   writeVars, blockVars,
                   patternVars, multiVars>>

\* the for loop ends without HALT
MaxStepsReached ==
    /\ pc = "top"
    /\ step > max_steps
    /\ pc' = "max_steps_reached"
    /\ UNCHANGED <<history, step, last_reply, tool>>
    /\ LoopFrame
    /\ UNCHANGED <<editVars, pathVars, parseVars, pruneVars, resultVars, commandVars, patchVars,
                   writeVars, blockVars,
                   patternVars, multiVars>>

\* not llm_output.strip(): the reply and the corrective turn are appended
EmptyReply ==
    /\ pc = "chat"
    /\ history' = history \o <<assistant_reply, user_turn>>
    /\ last_reply' = "empty"
    /\ step' = step + 1
    /\ pc' = "top"
    /\ UNCHANGED tool
    /\ LoopFrame
    /\ UNCHANGED <<editVars, pathVars, parseVars, pruneVars, resultVars, commandVars, patchVars,
                   writeVars, blockVars,
                   patternVars, multiVars>>

\* parse_action raised: the reply and the corrective turn are appended
ParseError ==
    /\ pc = "chat"
    /\ history' = history \o <<assistant_reply, user_turn>>
    /\ last_reply' = "parse_error"
    /\ step' = step + 1
    /\ pc' = "top"
    /\ UNCHANGED tool
    /\ LoopFrame
    /\ UNCHANGED <<editVars, pathVars, parseVars, pruneVars, resultVars, commandVars, patchVars,
                   writeVars, blockVars,
                   patternVars, multiVars>>

\* an unknown directive that runs the command of the reply all the same
UnknownAction_runs_it ==
    /\ pc = "chat"
    /\ history' = history \o <<assistant_reply, user_turn>>
    /\ last_reply' = "unknown_action"
    /\ step' = step + 1
    /\ pc' = "top"
    /\ tool' = "returned"
    /\ LoopFrame
    /\ UNCHANGED <<editVars, pathVars, parseVars, pruneVars, resultVars, commandVars, patchVars,
                   writeVars, blockVars,
                   patternVars, multiVars>>

\* the final else of the dispatch
UnknownAction ==
    /\ pc = "chat"
    /\ history' = history \o <<assistant_reply, user_turn>>
    /\ last_reply' = "unknown_action"
    /\ step' = step + 1
    /\ pc' = "top"
    /\ UNCHANGED tool
    /\ LoopFrame
    /\ UNCHANGED <<editVars, pathVars, parseVars, pruneVars, resultVars, commandVars, patchVars,
                   writeVars, blockVars,
                   patternVars, multiVars>>

\* HALT handled like a directive without a tool: the loop goes on
Halt_falls_through ==
    /\ pc = "chat"
    /\ history' = Append(history, assistant_reply)
    /\ last_reply' = "HALT"
    /\ step' = step + 1
    /\ pc' = "top"
    /\ UNCHANGED tool
    /\ LoopFrame
    /\ UNCHANGED <<editVars, pathVars, parseVars, pruneVars, resultVars, commandVars, patchVars,
                   writeVars, blockVars,
                   patternVars, multiVars>>

\* action == "HALT": break
Halt ==
    /\ pc = "chat"
    /\ history' = Append(history, assistant_reply)
    /\ last_reply' = "HALT"
    /\ pc' = "halted"
    /\ UNCHANGED <<step, tool>>
    /\ LoopFrame
    /\ UNCHANGED <<editVars, pathVars, parseVars, pruneVars, resultVars, commandVars, patchVars,
                   writeVars, blockVars,
                   patternVars, multiVars>>

\* the directives whose branch ends in "continue" after appending the result
ContinueActions ==
    {"READ_FILE", "LIST_DIR", "GREP", "FIND_FILES", "READ_FILE_LINES", "SCAN_FILE",
     "RUN_COMMAND", "SHOW_DIFF", "GIT_STATUS", "GIT_DIFF", "GIT_COMMIT", "EDIT_MULTIPLE",
     "UNDO_LAST_EDIT", "RESTORE_FILE", "FIND_DEFINITION", "FIND_REFERENCES",
     "CHECK_SYNTAX", "APPLY_PATCH"}

\* the directives that change files of the repository: tool_edit_file,
\* tool_write_file, tool_edit_multiple, tool_apply_patch
MutatingActions == {"EDIT_FILE", "WRITE_FILE", "EDIT_MULTIPLE", "APPLY_PATCH"}

\* what a tool can report: a mutating tool that it changed the files ("ok") or
\* that it did not ("error"); the result of any other tool is not told apart
ToolResults(a) == IF a \in MutatingActions THEN {"ok", "error"} ELSE {"returned"}

\* "git checkout HEAD ." of tool_undo_last_edit and "git checkout HEAD <path>"
\* of tool_restore_file: a checkout that succeeds replaces what is not
\* committed with the content of HEAD
git_checkout_HEAD(last_edit, succeeds) ==
    IF succeeds /\ last_edit = "in_worktree_only" THEN "reverted" ELSE last_edit

\* a tool is run and its result is not appended to the transcript
ToolAction_drops_result ==
    /\ pc = "chat"
    /\ \E a \in ContinueActions :
           \E r \in ToolResults(a), succeeds \in BOOLEAN :
               /\ history' = Append(history, assistant_reply)
               /\ last_reply' = a
               /\ tool' = r
               /\ files' = IF a \in {"UNDO_LAST_EDIT", "RESTORE_FILE"}
                           THEN [last_edit |-> git_checkout_HEAD(files.last_edit, succeeds),
                                 checkout |-> IF succeeds THEN "ok" ELSE "error"]
                           ELSE files
    /\ step' = step + 1
    /\ pc' = "top"
    /\ UNCHANGED <<needs_validation, last_change_description, retry,
                   ssh_validation_cmd, max_steps, llm_calls, cycle,
                   failed_validations, counts>>
    /\ UNCHANGED <<editVars, pathVars, parseVars, pruneVars, resultVars, commandVars, patchVars,
                   writeVars, blockVars,
                   patternVars, multiVars>>

\* a directive whose branch runs its tool, appends the result and continues
ToolAction ==
    /\ pc = "chat"
    /\ \E a \in ContinueActions :
           \E r \in ToolResults(a), succeeds \in BOOLEAN :
               /\ history' = history \o <<assistant_reply, user_turn>>
               /\ last_reply' = a
               /\ tool' = r
               /\ files' = IF a \in {"UNDO_LAST_EDIT", "RESTORE_FILE"}
                           THEN [last_edit |-> git_checkout_HEAD(files.last_edit, succeeds),
                                 checkout |-> IF succeeds THEN "ok" ELSE "error"]
                           ELSE files
    /\ step' = step + 1
    /\ pc' = "top"
    /\ UNCHANGED <<needs_validation, last_change_description, retry,
                   ssh_validation_cmd, max_steps, llm_calls, cycle,
                   failed_validations, counts>>
    /\ UNCHANGED <<editVars, pathVars, parseVars, pruneVars, resultVars, commandVars, patchVars,
                   writeVars, blockVars,
                   patternVars, multiVars>>

\* EDIT_FILE and WRITE_FILE with the validation loop entered after a failed edit too
EditOrWrite_validates_failures ==
    /\ pc = "chat"
    /\ \E a \in {"EDIT_FILE", "WRITE_FILE"}, r \in {"ok", "error", "rejected"} :
           /\ history' = history \o <<assistant_reply, user_turn>>
           /\ last_reply' = a
           /\ tool' = r
           /\ needs_validation' = TRUE
           /\ last_change_description' =
                  IF r = "ok" THEN (IF a = "EDIT_FILE" THEN "Edited" ELSE "Wrote")
                  ELSE last_change_description
           /\ IF ssh_validation_cmd # ""
              THEN pc' = "validation" /\ retry' = 0 /\ step' = step
              ELSE pc' = "top" /\ step' = step + 1 /\ retry' = retry
           /\ counts' = IF r = "ok" THEN [counts EXCEPT !.edits_ok = @ + 1] ELSE counts
           /\ files' = IF r = "ok" THEN [files EXCEPT !.last_edit = "in_worktree_only"]
                       ELSE files
    /\ UNCHANGED <<ssh_validation_cmd, max_steps, llm_calls, cycle, failed_validations>>
    /\ UNCHANGED <<editVars, pathVars, parseVars, pruneVars, resultVars, commandVars, patchVars,
                   writeVars, blockVars,
                   patternVars, multiVars>>

\* action == "EDIT_FILE" or "WRITE_FILE": resolve_repo_path raises ("rejected")
\* or the tool runs and reports success ("ok") or failure ("error"); the result
\* is appended; a success sets needs_validation; "if not needs_validation:
\* continue", otherwise on to the validation loop, which is entered if
\* ssh_validation_cmd is not the empty string
EditOrWrite ==
    /\ pc = "chat"
    /\ \E a \in {"EDIT_FILE", "WRITE_FILE"}, r \in {"ok", "error", "rejected"} :
           LET needs == needs_validation \/ r = "ok"
           IN  /\ history' = history \o <<assistant_reply, user_turn>>
               /\ last_reply' = a
               /\ tool' = r
               /\ needs_validation' = needs
               /\ last_change_description' =
                      IF r = "ok" THEN (IF a = "EDIT_FILE" THEN "Edited" ELSE "Wrote")
                      ELSE last_change_description
               /\ IF needs /\ ssh_validation_cmd # ""
                  THEN pc' = "validation" /\ retry' = 0 /\ step' = step
                  ELSE pc' = "top" /\ step' = step + 1 /\ retry' = retry
               /\ counts' = IF r = "ok" THEN [counts EXCEPT !.edits_ok = @ + 1] ELSE counts
               /\ files' = IF r = "ok" THEN [files EXCEPT !.last_edit = "in_worktree_only"]
                           ELSE files
    /\ UNCHANGED <<ssh_validation_cmd, max_steps, llm_calls, cycle, failed_validations>>
    /\ UNCHANGED <<editVars, pathVars, parseVars, pruneVars, resultVars, commandVars, patchVars,
                   writeVars, blockVars,
                   patternVars, multiVars>>

\* commit_and_push_changes: (True, "Committed and pushed"), (True, "Nothing to
\* commit"), (False, "git ... failed: <stderr>") with or without the words
\* "timed out" in stderr, (False, "git operation timed out")
CommitOutcomes ==
    {"committed", "nothing_to_commit", "failed", "failed_mentions_timed_out", "timed_out"}

commit_success(c) == c \in {"committed", "nothing_to_commit"}

\* run_validation_command: a blank command is "disabled", which counts as
\* success; otherwise the exit status decides, and the output may hold any text
ValidationOutcomes(cmd) ==
    IF cmd = "blank" THEN {"disabled"}
    ELSE {"passed", "passed_mentions_timed_out", "failed", "failed_mentions_timed_out",
          "timed_out"}

validation_success(v) == v \in {"passed", "passed_mentions_timed_out", "disabled"}

\* "timed out" in message.lower()
MentionsTimedOut(o) ==
    o \in {"timed_out", "failed_mentions_timed_out", "passed_mentions_timed_out"}

Min(a, b) == IF a < b THEN a ELSE b

\* commit_and_push_changes that stages the changes and does not commit them
commit_and_push_changes_stages_only(c, landed, last_edit) == last_edit

\* commit_and_push_changes, "git add -A", "git commit", "git push": where the
\* content of the last edit is afterwards.  On success the working tree is
\* HEAD; a call that reports a failure or a timeout has made the commit
\* ("landed") if it failed in the push, and has not if it failed before
commit_and_push_changes_of(c, landed, last_edit) ==
    IF last_edit = "in_worktree_only" /\ (commit_success(c) \/ landed)
    THEN "in_head"
    ELSE last_edit

\* the validation loop without the break after a failed validation
ValidationAttempt_keeps_retrying ==
    /\ pc = "validation"
    /\ \E c \in CommitOutcomes, v \in ValidationOutcomes(ssh_validation_cmd),
          landed \in BOOLEAN :
           LET commit_timeout == ~commit_success(c) /\ MentionsTimedOut(c)
               validation_timeout == ~commit_timeout /\ MentionsTimedOut(v)
               validated_ok == ~commit_timeout /\ ~validation_timeout /\ validation_success(v)
               validated_bad == ~commit_timeout /\ ~validation_timeout /\ ~validation_success(v)
               break == commit_timeout \/ validation_timeout \/ validated_ok
               over == break \/ retry + 1 >= max_validation_retries
           IN  /\ history' = IF validated_ok \/ validated_bad
                             THEN Append(history, validation_turn)
                             ELSE history
               /\ cycle' = [commit |-> c,
                            validation |-> IF commit_timeout THEN "not_run" ELSE v,
                            notice |-> IF validated_ok THEN "VALIDATION_SUCCESS"
                                       ELSE IF validated_bad THEN "VALIDATION_FAILED"
                                       ELSE "none",
                            outcome |-> IF commit_timeout THEN "skipped"
                                        ELSE IF validation_timeout THEN "timed_out"
                                        ELSE IF validated_ok THEN "passed"
                                        ELSE IF break THEN "repair_requested"
                                        ELSE "exhausted"]
               /\ counts' = LET ran == IF commit_timeout \/ v = "disabled" THEN 0 ELSE 1
                             IN  [counts EXCEPT !.commits_in_step = @ + 1,
                                                !.validations_in_step = @ + ran,
                                                !.validations = @ + ran]
               /\ files' = [files EXCEPT
                                !.last_edit = commit_and_push_changes_of(c, landed, @)]
               /\ failed_validations' =
                      IF validated_bad THEN Min(failed_validations + 1, max_validation_retries)
                      ELSE IF validated_ok THEN 0
                      ELSE failed_validations
               /\ IF over
                  THEN /\ needs_validation' = FALSE
                       /\ last_change_description' = ""
                       /\ pc' = "top"
                       /\ step' = step + 1
                       /\ retry' = retry
                  ELSE /\ retry' = retry + 1
                       /\ UNCHANGED <<needs_validation, last_change_description, pc, step>>
    /\ UNCHANGED <<ssh_validation_cmd, last_reply, max_steps, llm_calls, tool>>
    /\ UNCHANGED <<editVars, pathVars, parseVars, pruneVars, resultVars, commandVars, patchVars,
                   writeVars, blockVars,
                   patternVars, multiVars>>

\* one pass of "for retry in range(max_validation_retries)": commit and push,
\* run the validation command, append the notice; after the loop the flags are
\* reset and the step ends
ValidationAttempt ==
    /\ pc = "validation"
    /\ \E c \in CommitOutcomes, v \in ValidationOutcomes(ssh_validation_cmd),
          landed \in BOOLEAN :
           LET commit_timeout == ~commit_success(c) /\ MentionsTimedOut(c)
               validation_timeout == ~commit_timeout /\ MentionsTimedOut(v)
               validated_ok == ~commit_timeout /\ ~validation_timeout /\ validation_success(v)
               validated_bad == ~commit_timeout /\ ~validation_timeout /\ ~validation_success(v)
               break == commit_timeout \/ validation_timeout \/ validated_ok
                        \/ retry < max_validation_retries - 1
               over == break \/ retry + 1 >= max_validation_retries
           IN  /\ history' = IF validated_ok \/ validated_bad
                             THEN Append(history, validation_turn)
                             ELSE history
               /\ cycle' = [commit |-> c,
                            validation |-> IF commit_timeout THEN "not_run" ELSE v,
                            notice |-> IF validated_ok THEN "VALIDATION_SUCCESS"
                                       ELSE IF validated_bad THEN "VALIDATION_FAILED"
                                       ELSE "none",
                            outcome |-> IF commit_timeout THEN "skipped"
                                        ELSE IF validation_timeout THEN "timed_out"
                                        ELSE IF validated_ok THEN "passed"
                                        ELSE IF break THEN "repair_requested"
                                        ELSE "exhausted"]
               /\ counts' = LET ran == IF commit_timeout \/ v = "disabled" THEN 0 ELSE 1
                             IN  [counts EXCEPT !.commits_in_step = @ + 1,
                                                !.validations_in_step = @ + ran,
                                                !.validations = @ + ran]
               /\ files' = [files EXCEPT
                                !.last_edit = commit_and_push_changes_of(c, landed, @)]
               /\ failed_validations' =
                      IF validated_bad THEN Min(failed_validations + 1, max_validation_retries)
                      ELSE IF validated_ok THEN 0
                      ELSE failed_validations
               /\ IF over
                  THEN /\ needs_validation' = FALSE
                       /\ last_change_description' = ""
                       /\ pc' = "top"
                       /\ step' = step + 1
                       /\ retry' = retry
                  ELSE /\ retry' = retry + 1
                       /\ UNCHANGED <<needs_validation, last_change_description, pc, step>>
    /\ UNCHANGED <<ssh_validation_cmd, last_reply, max_steps, llm_calls, tool>>
    /\ UNCHANGED <<editVars, pathVars, parseVars, pruneVars, resultVars, commandVars, patchVars,
                   writeVars, blockVars,
                   patternVars, multiVars>>

(***************************************************************************)
(* The size of tool results                                                *)
(*                                                                         *)
(* A file is the sequence of the lengths of its lines, the newline         *)
(* counted.  Of a tool result only the characters copied from the file,    *)
(* the payload of the directive or the output of the command are counted:  *)
(* the words the tool puts around them have a fixed length.                *)
(***************************************************************************)
\* tool_read_file(path, max_chars=8000)
read_file_max_chars == 8000
\* tool_run_command: output[:5000]
run_command_max_chars == 5000
\* tool_git_diff: output[:10000]
git_diff_max_chars == 10000
body_preview_chars == 300

LineLengths == {1, 4000, 12000}
PayloadLengths == {0, 100, 20000}
OutputLengths == {0, 5000, 5001, 10000, 10001, 30000}
Files == SeqsUpTo(LineLengths, MaxFileLines)

RECURSIVE SumOf(_)
SumOf(lens) == IF lens = <<>> THEN 0 ELSE Head(lens) + SumOf(Tail(lens))

\* the loop "for line in lines: if char_count + len(line) > max_chars: break"
RECURSIVE FitLines(_, _)
FitLines(lines, char_count) ==
    IF lines = <<>> \/ char_count + Head(lines) > read_file_max_chars THEN char_count
    ELSE FitLines(Tail(lines), char_count + Head(lines))

tool_read_file_chars(lines) ==
    IF SumOf(lines) > read_file_max_chars THEN FitLines(lines, 0) ELSE SumOf(lines)

\* a loop that passes over a line that does not fit and goes on
RECURSIVE line_count_skipping(_, _)
line_count_skipping(lines, char_count) ==
    IF lines = <<>> THEN 0
    ELSE IF char_count + Head(lines) > read_file_max_chars
    THEN line_count_skipping(Tail(lines), char_count)
    ELSE 1 + line_count_skipping(Tail(lines), char_count + Head(lines))

\* line_count of the same loop: the lines added before the break
RECURSIVE line_count(_, _)
line_count(lines, char_count) ==
    IF lines = <<>> \/ char_count + Head(lines) > read_file_max_chars THEN 0
    ELSE 1 + line_count(Tail(lines), char_count + Head(lines))

NoNotice == [shown |-> -1, total |-> -1, remaining |-> -1]

\* "showing {line_count}/{total_lines} lines", "{remaining_lines} more lines"
tool_read_file_notice(lines) ==
    IF SumOf(lines) > read_file_max_chars
    THEN [shown |-> line_count(lines, 0), total |-> Len(lines),
          remaining |-> Len(lines) - line_count(lines, 0)]
    ELSE NoNotice

\* lines[start - 1 : min(end, total_lines)], each line without its newline
tool_read_file_lines_chars(lines, start, end) ==
    IF start < 1 \/ end < 1 \/ start > Len(lines) THEN 0
    ELSE LET end_idx == Min(end, Len(lines))
             selected == SubSeq(lines, start, end_idx)
         IN  SumOf([i \in 1..Len(selected) |-> selected[i] - 1])

\* the two error messages that end in "You provided: <<< old_str >>>"
tool_edit_file_chars(old_len, ok) == IF ok THEN 0 ELSE old_len

tool_run_command_chars(output_len) == Min(output_len, run_command_max_chars)

tool_git_diff_chars(output_len) == Min(output_len, git_diff_max_chars)

\* an incomplete patch is answered with "Your patch was only: <the patch>",
\* a complete one with the log of patch(1)
tool_apply_patch_chars(patch_len, log_len, complete) ==
    IF complete THEN log_len ELSE patch_len

ToolCalls ==
    [tool : {"READ_FILE"}, lines : Files, start : {0}, end : {0},
     payload : {0}, output : {0}, ok : {TRUE}]
    \cup [tool : {"READ_FILE_LINES"}, lines : Files, start : 0..MaxFileLines,
          end : 0..(MaxFileLines + 1), payload : {0}, output : {0}, ok : {TRUE}]
    \cup [tool : {"EDIT_FILE"}, lines : {<<>>}, start : {0}, end : {0},
          payload : PayloadLengths, output : {0}, ok : BOOLEAN]
    \cup [tool : {"RUN_COMMAND", "GIT_DIFF"}, lines : {<<>>}, start : {0}, end : {0},
          payload : {0}, output : OutputLengths, ok : {TRUE}]
    \cup [tool : {"APPLY_PATCH"}, lines : {<<>>}, start : {0}, end : {0},
          payload : PayloadLengths, output : OutputLengths, ok : BOOLEAN]

ResultChars(call) ==
    CASE call.tool = "READ_FILE" -> tool_read_file_chars(call.lines)
      [] call.tool = "READ_FILE_LINES" ->
             tool_read_file_lines_chars(call.lines, call.start, call.end)
      [] call.tool = "EDIT_FILE" -> tool_edit_file_chars(call.payload, call.ok)
      [] call.tool = "RUN_COMMAND" -> tool_run_command_chars(call.output)
      [] call.tool = "GIT_DIFF" -> tool_git_diff_chars(call.output)
      [] call.tool = "APPLY_PATCH" ->
             tool_apply_patch_chars(call.payload, call.output, call.ok)

NoLines == [msg |-> "none", numbered |-> <<>>, end_idx |-> -1]

\* the range read with the start taken as a 0-based index
tool_read_file_lines_zero_based(lines, start, end) ==
    IF start < 1 \/ end < 1 THEN [msg |-> "READ_FILE_LINES_ERROR_numbers", numbered |-> <<>>,
                                  end_idx |-> -1]
    ELSE IF start > Len(lines)
    THEN [msg |-> "READ_FILE_LINES_ERROR_start", numbered |-> <<>>, end_idx |-> -1]
    ELSE LET end_idx == Min(end, Len(lines))
             selected == SubSeq(lines, start + 1, end_idx)
         IN  [msg |-> "READ_FILE_LINES_RESULT",
              numbered |-> [i \in 1..Len(selected) |->
                               [number |-> (i - 1) + start, line |-> selected[i]]],
              end_idx |-> end_idx]

\* tool_read_file_lines on an existing file: the two range errors, or the
\* lines[start - 1 : min(end, total_lines)], each as "{i+start}: {line}"
tool_read_file_lines_of(lines, start, end) ==
    IF start < 1 \/ end < 1 THEN [msg |-> "READ_FILE_LINES_ERROR_numbers", numbered |-> <<>>,
                                  end_idx |-> -1]
    ELSE IF start > Len(lines)
    THEN [msg |-> "READ_FILE_LINES_ERROR_start", numbered |-> <<>>, end_idx |-> -1]
    ELSE LET end_idx == Min(end, Len(lines))
             selected == SubSeq(lines, start, end_idx)
         IN  [msg |-> "READ_FILE_LINES_RESULT",
              numbered |-> [i \in 1..Len(selected) |->
                               [number |-> (i - 1) + start, line |-> selected[i]]],
              end_idx |-> end_idx]

\* the tool is called and its result is appended to the transcript
ToolResult ==
    /\ result_chars = -1
    /\ result_call.tool # "none"
    /\ result_chars' = ResultChars(result_call)
    /\ result_notice' = IF result_call.tool = "READ_FILE"
                         THEN tool_read_file_notice(result_call.lines)
                         ELSE NoNotice
    /\ result_lines' = IF result_call.tool = "READ_FILE_LINES"
                        THEN tool_read_file_lines_of(result_call.lines, result_call.start,
                                                     result_call.end)
                        ELSE NoLines
    /\ UNCHANGED result_call
    /\ UNCHANGED <<editVars, pathVars, parseVars, pruneVars, loopVars, commandVars, patchVars,
                   writeVars, blockVars,
                   patternVars, multiVars>>

(***************************************************************************)
(* tool_run_command                                                        *)
(*                                                                         *)
(* A command is the sequence of its whitespace-delimited tokens, a token   *)
(* the sequence of its characters; ";" is the shell's command separator.   *)
(* The command is run by "sh -c", which executes the first word of every   *)
(* simple command of the line.                                             *)
(***************************************************************************)
ProgramNames == {<<"s">>, <<"s", "h">>, <<"s", "h", "h">>, <<"h">>}
Separator == <<";">>
CommandTokens == ProgramNames \cup {Separator}
Commands == SeqsUpTo(CommandTokens, MaxCommandTokens)
Whitelists == SUBSET {<<"s">>, <<"s", "h">>, <<"h">>}

\* cmd_name in allowed_commands or any(cmd_name.startswith(prefix) ...)
Whitelisted(cmd_name, allowed) ==
    cmd_name \in allowed \/ \E prefix \in allowed : StartsWith(cmd_name, prefix)

\* the simple commands of a shell line: the runs of tokens between separators
RECURSIVE SimpleCommands(_, _)
SimpleCommands(tokens, current) ==
    IF tokens = <<>> THEN <<current>>
    ELSE IF Head(tokens) = Separator
         THEN <<current>> \o SimpleCommands(Tail(tokens), <<>>)
         ELSE SimpleCommands(Tail(tokens), Append(current, Head(tokens)))

\* what "sh -c" executes: nothing if the line has an empty simple command
\* before a separator (a syntax error), otherwise the first word of each
ShellExecutes(tokens) ==
    LET parts == SimpleCommands(tokens, <<>>)
        syntax_error == \E i \in 1..(Len(parts) - 1) : parts[i] = <<>>
    IN  IF syntax_error THEN {}
        ELSE {parts[i][1] : i \in {j \in 1..Len(parts) : parts[j] # <<>>}}

NotRun == [msg |-> "none", started |-> FALSE, programs |-> {}]

\* the whitelist test applied to every token of the command, not to the first
tool_run_command_any_token(cmd, allowed) ==
    IF cmd = <<>>
    THEN {[msg |-> "RUN_COMMAND_ERROR_empty", started |-> FALSE, programs |-> {}]}
    ELSE IF ~\E i \in 1..Len(cmd) : Whitelisted(cmd[i], allowed)
         THEN {[msg |-> "RUN_COMMAND_ERROR_not_in_whitelist", started |-> FALSE,
                programs |-> {}]}
         ELSE {[msg |-> m, started |-> TRUE, programs |-> ShellExecutes(cmd)] :
                  m \in {"RUN_COMMAND_RESULT", "RUN_COMMAND_ERROR_timed_out"}}

\* the results tool_run_command can return for a command and a whitelist
tool_run_command_of(cmd, allowed) ==
    IF cmd = <<>>
    THEN {[msg |-> "RUN_COMMAND_ERROR_empty", started |-> FALSE, programs |-> {}]}
    ELSE IF ~Whitelisted(cmd[1], allowed)
         THEN {[msg |-> "RUN_COMMAND_ERROR_not_in_whitelist", started |-> FALSE,
                programs |-> {}]}
         ELSE {[msg |-> m, started |-> TRUE, programs |-> ShellExecutes(cmd)] :
                  m \in {"RUN_COMMAND_RESULT", "RUN_COMMAND_ERROR_timed_out"}}

tool_run_command ==
    /\ run_result = NotRun
    /\ command # <<"none">>
    /\ run_result' \in tool_run_command_of(command, allowed_commands)
    /\ UNCHANGED <<command, allowed_commands>>
    /\ UNCHANGED <<editVars, pathVars, parseVars, pruneVars, loopVars, resultVars, patchVars,
                   writeVars, blockVars,
                   patternVars, multiVars>>

(***************************************************************************)
(* tool_apply_patch                                                        *)
(*                                                                         *)
(* A patch is the sequence of its lines, a line one of: a "--- a/file"     *)
(* header, a "+++ b/file" header, a "@@ ... @@" hunk header, a context     *)
(* line, an added line, a removed line, a markdown fence (three backquotes,*)
(* written "~~~fence" here).                                               *)
(***************************************************************************)
PatchLines == {"--- a/file", "+++ b/file", "@@ -1 +1 @@", " context", "+added", "-removed",
               "~~~fence"}
Patches == SeqsUpTo(PatchLines, MaxPatchLines)

\* line.startswith('@@ ')
StartsHunk(line) == line = "@@ -1 +1 @@"
\* line.startswith(('+', '-'))
StartsPlusMinus(line) == line \in {"+added", "-removed", "+++ b/file", "--- a/file"}

\* keep what is between the first and the last fence line, if there are two
_strip_markdown_fences(lines) ==
    LET fence_indices == {i \in 1..Len(lines) : lines[i] = "~~~fence"}
    IN  IF Cardinality(fence_indices) >= 2
        THEN LET start == CHOOSE i \in fence_indices : \A j \in fence_indices : i <= j
                 end == CHOOSE i \in fence_indices : \A j \in fence_indices : j <= i
             IN  SubSeq(lines, start + 1, end - 1)
        ELSE lines

\* what one run of patch(1) can give: exit status 0, another exit status, or
\* an exception of subprocess.run, recorded as -1
PatchExits == {0, 1, -1}

NotPatched == [msg |-> "none", attempts |-> <<>>, logs |-> {}]

\* the loop over the strip levels without the return on success
tool_apply_patch_tries_both(text) ==
    LET lines == _strip_markdown_fences(text)
        has_hunks == \E i \in 1..Len(lines) : StartsHunk(lines[i])
        has_changes == \E i \in 2..Len(lines) : StartsPlusMinus(lines[i])
    IN  IF text = <<>>
        THEN {[msg |-> "APPLY_PATCH_ERROR_empty_patch_text", attempts |-> <<>>, logs |-> {}]}
        ELSE IF lines = <<>>
        THEN {[msg |-> "APPLY_PATCH_ERROR_empty_after_cleaning", attempts |-> <<>>,
               logs |-> {}]}
        ELSE IF ~has_hunks \/ ~has_changes
        THEN {[msg |-> "APPLY_PATCH_ERROR_incomplete", attempts |-> <<>>, logs |-> {}]}
        ELSE {[msg |-> IF rc1 = 0 THEN "APPLY_PATCH_OK_p1"
                       ELSE IF rc0 = 0 THEN "APPLY_PATCH_OK_p0" ELSE "APPLY_PATCH_FAILED",
               attempts |-> <<[p_level |-> 1, rc |-> rc1], [p_level |-> 0, rc |-> rc0]>>,
               logs |-> IF rc1 = 0 THEN {1} ELSE IF rc0 = 0 THEN {0} ELSE {1, 0}] :
                  rc1 \in PatchExits, rc0 \in PatchExits}

\* the results tool_apply_patch can return for a patch
tool_apply_patch_of(text) ==
    LET lines == _strip_markdown_fences(text)
        has_hunks == \E i \in 1..Len(lines) : StartsHunk(lines[i])
        has_changes == \E i \in 2..Len(lines) : StartsPlusMinus(lines[i])
    IN  IF text = <<>>
        THEN {[msg |-> "APPLY_PATCH_ERROR_empty_patch_text", attempts |-> <<>>, logs |-> {}]}
        ELSE IF lines = <<>>
        THEN {[msg |-> "APPLY_PATCH_ERROR_empty_after_cleaning", attempts |-> <<>>,
               logs |-> {}]}
        ELSE IF ~has_hunks \/ ~has_changes
        THEN {[msg |-> "APPLY_PATCH_ERROR_incomplete", attempts |-> <<>>, logs |-> {}]}
        ELSE {[msg |-> "APPLY_PATCH_OK_p1", attempts |-> <<[p_level |-> 1, rc |-> 0]>>,
               logs |-> {1}]}
             \cup {[msg |-> IF rc0 = 0 THEN "APPLY_PATCH_OK_p0" ELSE "APPLY_PATCH_FAILED",
                    attempts |-> <<[p_level |-> 1, rc |-> rc1], [p_level |-> 0, rc |-> rc0]>>,
                    logs |-> IF rc0 = 0 THEN {0} ELSE {1, 0}] :
                       rc1 \in PatchExits \ {0}, rc0 \in PatchExits}

tool_apply_patch ==
    /\ patch_result = NotPatched
    /\ patch_text # <<"none">>
    /\ patch_result' \in tool_apply_patch_of(patch_text)
    /\ UNCHANGED patch_text
    /\ UNCHANGED <<editVars, pathVars, parseVars, pruneVars, loopVars, resultVars,
                   commandVars,
                   writeVars, blockVars,
                   patternVars, multiVars>>

(***************************************************************************)
(* tool_write_file and tool_read_file on the same path                     *)
(***************************************************************************)
NotRead == [msg |-> "none", text |-> <<>>, truncated |-> FALSE]

\* path.write_text(content): a directory at the path raises, anything else is
\* replaced by a file holding the encoded content
tool_write_file ==
    /\ write_result = "none"
    /\ write_path.kind # "none"
    /\ IF write_path.kind = "dir"
       THEN /\ write_result' = "WRITE_FILE_ERROR"
            /\ UNCHANGED write_path
       ELSE /\ write_result' = "WRITE_FILE_OK"
            /\ write_path' = [kind |-> "file", data |-> write_text(write_content)]
    /\ UNCHANGED <<write_content, read_result>>
    /\ UNCHANGED <<editVars, pathVars, parseVars, pruneVars, loopVars, resultVars,
                   commandVars, patchVars, blockVars,
                   patternVars, multiVars>>

\* path.read_text() and, beyond max_chars, the truncation to whole lines
tool_read_file ==
    /\ write_result # "none"
    /\ read_result = NotRead
    /\ IF write_path.kind # "file"
       THEN read_result' = [msg |-> "READ_FILE_ERROR", text |-> <<>>, truncated |-> FALSE]
       ELSE LET text == read_text(write_path.data)
            IN  read_result' = [msg |-> "READ_FILE_RESULT", text |-> text,
                                truncated |-> Len(text) > read_file_max_chars]
    /\ UNCHANGED <<write_path, write_content, write_result>>
    /\ UNCHANGED <<editVars, pathVars, parseVars, pruneVars, loopVars, resultVars,
                   commandVars, patchVars, blockVars,
                   patternVars, multiVars>>

(***************************************************************************)
(* parse_action on the blocks of EDIT_FILE and WRITE_FILE                  *)
(*                                                                         *)
(* The body of a reply is the sequence of the lines after the ACTION line. *)
(* A line is a label ("OLD:", "NEW:", "CONTENT:"), a delimiter ("<<<",     *)
(* ">>>"), or a line of text: empty, plain, indented, with trailing        *)
(* spaces, a markdown fence (written "~~~fence"), or a line that reads as  *)
(* a directive, at the left margin or indented.  A text is the sequence of *)
(* its lines, as text.split('\n') gives them: the empty text is the single *)
(* empty line.                                                             *)
(***************************************************************************)
TextLines == {"", "x", "    y", "x  ", "~~~fence", "ACTION: HALT", "  ACTION: HALT"}
BlockTexts == SeqsUpTo(TextLines, MaxBlockLines)
\* how the model closed a block: correctly, with the open delimiter, not at all
BlockCloses == {">>>", "<<<", "missing"}
\* the NEW blocks tried with each OLD block
NewBlockTexts == {<<"x">>, <<"    y", "">>, <<>>}

Block(label, text, close) ==
    <<label, "<<<">> \o text \o (IF close = "missing" THEN <<>> ELSE <<close>>)

\* the lines of the reply after its first ACTION line
BodyOf(reply) ==
    IF reply.action = "EDIT_FILE"
    THEN Block("OLD:", reply.old, reply.old_close)
         \o Block("NEW:", reply.new, reply.new_close)
    ELSE Block("CONTENT:", reply.content, reply.content_close)

BlockReplies ==
    [action : {"EDIT_FILE"}, old : BlockTexts, old_close : BlockCloses,
     new : NewBlockTexts, new_close : BlockCloses,
     content : {<<>>}, content_close : {"missing"}]
    \cup [action : {"WRITE_FILE"}, old : {<<>>}, old_close : {"missing"},
          new : {<<>>}, new_close : {"missing"},
          content : BlockTexts, content_close : BlockCloses]

\* line.strip() == ""
Blank(line) == line = ""
line_lstrip(line) ==
    CASE line = "    y" -> "y"
      [] line = "  ACTION: HALT" -> "ACTION: HALT"
      [] OTHER -> line
line_rstrip(line) == IF line = "x  " THEN "x" ELSE line
\* line.strip().startswith('```')
IsFence(line) == line = "~~~fence"

RECURSIVE DropLeadingBlank(_)
DropLeadingBlank(lines) ==
    IF lines # <<>> /\ Blank(Head(lines)) THEN DropLeadingBlank(Tail(lines)) ELSE lines

RECURSIVE DropTrailingBlank(_)
DropTrailingBlank(lines) ==
    IF lines # <<>> /\ Blank(lines[Len(lines)])
    THEN DropTrailingBlank(SubSeq(lines, 1, Len(lines) - 1))
    ELSE lines

\* text.strip(): the whitespace before the first and after the last visible
\* character goes, empty lines and the first line's indentation included
text_strip(text) ==
    LET t == DropTrailingBlank(DropLeadingBlank(text))
    IN  IF t = <<>> THEN <<"">>
        ELSE [i \in 1..Len(t) |->
                 LET l == IF i = 1 THEN line_lstrip(t[i]) ELSE t[i]
                 IN  IF i = Len(t) THEN line_rstrip(l) ELSE l]

strip_markdown_fences(text) ==
    LET lines == text_strip(text)
        l1 == IF IsFence(lines[1]) THEN Tail(lines) ELSE lines
        l2 == IF l1 # <<>> /\ IsFence(l1[Len(l1)]) THEN SubSeq(l1, 1, Len(l1) - 1) ELSE l1
    IN  IF l2 = <<>> THEN <<"">> ELSE l2

\* "\n\s*>>>" after line e: empty lines, then a line that starts with ">>>"
ClosesAfter(body, e) ==
    \E m \in (e + 1)..Len(body) :
        /\ body[m] = ">>>"
        /\ \A q \in (e + 1)..(m - 1) : Blank(body[q])

\* "label\s*\n?\s*<<<" from the label on line i: the lines the "<<<" can be on
OpensAfter(body, i) ==
    {j \in (i + 1)..Len(body) :
        /\ body[j] = "<<<"
        /\ \A q \in (i + 1)..(j - 1) : Blank(body[q])}

\* "<<<\s*\n(.*?)\n\s*>>>" with "<<<" on line j: the first and last line of
\* the group for every way to match, <<k, e>>
GroupsAfter(body, j) ==
    {ke \in ((j + 1)..Len(body)) \X ((j + 1)..Len(body)) :
        /\ ke[1] <= ke[2]
        /\ \A q \in (j + 1)..(ke[1] - 1) : Blank(body[q])
        /\ ClosesAfter(body, ke[2])}

\* re.search: the leftmost label that matches; the greedy "\s*" takes the most
\* empty lines it can, the lazy group ends at the first line it can
find_block(body, label) ==
    LET starts == {i \in 1..Len(body) :
                      /\ body[i] = label
                      /\ \E j \in OpensAfter(body, i) : GroupsAfter(body, j) # {}}
    IN  IF starts = {} THEN [found |-> FALSE, text |-> <<>>]
        ELSE LET i == CHOOSE x \in starts : \A y \in starts : x <= y
                 j == CHOOSE x \in OpensAfter(body, i) : GroupsAfter(body, x) # {}
                 groups == GroupsAfter(body, j)
                 k == CHOOSE x \in {ke[1] : ke \in groups} :
                          \A ke \in groups : ke[1] <= x
                 e == CHOOSE x \in {ke[2] : ke \in {g \in groups : g[1] = k}} :
                          \A ke \in {g \in groups : g[1] = k} : x <= ke[2]
             IN  [found |-> TRUE, text |-> SubSeq(body, k, e)]

\* the characters of a line
LineChars(line) ==
    CASE line \in {"OLD:", "NEW:"} -> 4
      [] line = "CONTENT:" -> 8
      [] line \in {"<<<", ">>>", "x  ", "~~~fence"} -> 3
      [] line = "    y" -> 5
      [] line = "x" -> 1
      [] line = "ACTION: HALT" -> 12
      [] line = "  ACTION: HALT" -> 14
      [] OTHER -> 0

\* body[:300].replace('\n', '\\n'): the lines with a visible "\n" between them,
\* up to the ceiling; a line that passes the ceiling is cut
RECURSIVE Preview(_, _)
Preview(lines, room) ==
    IF lines = <<>> \/ room <= 0 THEN <<>>
    ELSE IF LineChars(Head(lines)) > room THEN <<"cut">>
    ELSE IF Tail(lines) = <<>> \/ LineChars(Head(lines)) = room THEN <<Head(lines)>>
    ELSE <<Head(lines), "\\n">> \o Preview(Tail(lines), room - LineChars(Head(lines)) - 1)

NoError == [label |-> "none", preview |-> <<>>]
NoParsedAction ==
    [action |-> "none", argument |-> "", patch |-> <<"">>, old_str |-> <<"">>,
     new_str |-> <<"">>, content |-> <<"">>]
BlockNotParsed == [status |-> "none", value |-> NoParsedAction, error |-> NoError]

\* the lines of a reply: the ACTION line of the directive, then its blocks
ReplyLines(reply) ==
    <<IF reply.action = "EDIT_FILE" THEN "ACTION: EDIT_FILE path"
      ELSE "ACTION: WRITE_FILE path">> \o BodyOf(reply)

\* ACTION_RE matches the line: "ACTION:" at the left margin, then a name
ACTION_RE_Matches(line) ==
    line \in {"ACTION: EDIT_FILE path", "ACTION: WRITE_FILE path", "ACTION: HALT"}

\* group 1 of ACTION_RE on a line it matches
ActionOf(line) ==
    CASE line = "ACTION: EDIT_FILE path" -> "EDIT_FILE"
      [] line = "ACTION: WRITE_FILE path" -> "WRITE_FILE"
      [] OTHER -> "HALT"

\* matches[-1]: the line of the last match of ACTION_RE in the reply
LastActionLine(lines) ==
    CHOOSE i \in 1..Len(lines) :
        /\ ACTION_RE_Matches(lines[i])
        /\ \A j \in (i + 1)..Len(lines) : ~ACTION_RE_Matches(lines[j])

\* parse_action on a reply of EDIT_FILE or WRITE_FILE: the ParsedAction of the
\* last ACTION line, or the ValueError of the first block that is not found
parse_action_blocks(reply) ==
    LET lines == ReplyLines(reply)
        m == LastActionLine(lines)
        name == ActionOf(lines[m])
        body == text_strip(Drop(lines, m))
        error(label) == [status |-> "error", value |-> NoParsedAction,
                         error |-> [label |-> label,
                                    preview |-> Preview(body, body_preview_chars)]]
    IN  IF name = "EDIT_FILE"
        THEN LET old_match == find_block(body, "OLD:")
                 new_match == find_block(body, "NEW:")
             IN  IF ~old_match.found THEN error("OLD")
                 ELSE IF ~new_match.found THEN error("NEW")
                 ELSE [status |-> "ok",
                       value |-> [action |-> "EDIT_FILE", argument |-> "path",
                                  patch |-> <<"">>,
                                  old_str |-> strip_markdown_fences(old_match.text),
                                  new_str |-> strip_markdown_fences(new_match.text),
                                  content |-> <<"">>],
                       error |-> NoError]
        ELSE IF name = "WRITE_FILE"
        THEN LET content_match == find_block(body, "CONTENT:")
             IN  IF ~content_match.found THEN error("CONTENT")
                 ELSE [status |-> "ok",
                       value |-> [action |-> "WRITE_FILE", argument |-> "path",
                                  patch |-> <<"">>, old_str |-> <<"">>, new_str |-> <<"">>,
                                  content |-> strip_markdown_fences(content_match.text)],
                       error |-> NoError]
        ELSE [status |-> "ok",
              value |-> [action |-> name, argument |-> "", patch |-> <<"">>,
                         old_str |-> <<"">>, new_str |-> <<"">>, content |-> <<"">>],
              error |-> NoError]

\* the text of the user turn that follows a parse error: a fixed reminder of
\* the format with examples
CorrectiveTurn ==
    <<"Your last reply contained analysis but no valid ACTION line.",
      "Now you MUST choose your next concrete step and reply in the following strict format:",
      "ACTION: READ_FILE bin/pkill/pkill.c", "ACTION: EDIT_FILE bin/pkill/pkill.c",
      "ACTION: HALT",
      "Do not omit the ACTION line. Do not send another analysis-only reply.">>

\* the loop parses the reply; on an exception it prints it to stderr and
\* appends the reply and the corrective turn to the transcript
ParseReply ==
    /\ block_parsed.status = "none"
    /\ block_reply.action # "none"
    /\ block_parsed' = parse_action_blocks(block_reply)
    /\ block_turn' = IF block_parsed'.status = "error" THEN CorrectiveTurn ELSE <<>>
    /\ UNCHANGED block_reply
    /\ UNCHANGED <<editVars, pathVars, parseVars, pruneVars, loopVars, resultVars,
                   commandVars, patchVars, writeVars,
                   patternVars, multiVars>>

(***************************************************************************)
(* The block patterns, on bodies of tokens                                 *)
(*                                                                         *)
(* Here a body is a sequence of tokens: the labels "OLD:" and "NEW:", the  *)
(* delimiters "<<<" and ">>>", a space "SP", a newline "NL" and a visible  *)
(* character "x".                                                          *)
(***************************************************************************)
WhitespaceTokens == {"SP", "NL"}
Whitespaces == SeqsUpTo(WhitespaceTokens, MaxWhitespace)
TokenTexts == SeqsUpTo({"x", "SP", "NL"}, MaxBlockTokens)
\* the texts of the block whose whitespace is varied
LaidOutTexts == {<<>>, <<"x">>, <<"x", "NL", "x">>, <<"SP", "x">>}
\* the NEW texts tried with each OLD text
NewTokenTexts == {<<"x">>, <<"SP", "x", "NL">>, <<>>}

\* a block written on lines of its own
TokenBlock(label, text, close) ==
    <<label, "NL", "<<<", "NL">> \o text
        \o (IF close = "missing" THEN <<>> ELSE <<"NL", close>>)

PatternInputs ==
    [family : {"whitespace"}, ws1 : Whitespaces, ws2 : Whitespaces, ws3 : Whitespaces,
     old : LaidOutTexts, old_close : {">>>"}, new : {<<>>}, new_close : {"missing"}]
    \cup [family : {"blocks"}, ws1 : {<<"NL">>}, ws2 : {<<"NL">>}, ws3 : {<<"NL">>},
          old : TokenTexts, old_close : BlockCloses,
          new : NewTokenTexts, new_close : BlockCloses]

\* the body of an input: one OLD block with the whitespace of the input around
\* its label and delimiters, or an OLD and a NEW block on lines of their own
PatternBody(in) ==
    IF in.family = "whitespace"
    THEN <<"OLD:">> \o in.ws1 \o <<"<<<">> \o in.ws2 \o in.old \o in.ws3 \o <<">>>">>
    ELSE TokenBlock("OLD:", in.old, in.old_close) \o <<"NL">>
         \o TokenBlock("NEW:", in.new, in.new_close)

IsWs(t) == t \in WhitespaceTokens

\* str.strip() on tokens
RECURSIVE token_lstrip(_)
token_lstrip(ts) == IF ts # <<>> /\ IsWs(Head(ts)) THEN token_lstrip(Tail(ts)) ELSE ts

RECURSIVE token_rstrip(_)
token_rstrip(ts) ==
    IF ts # <<>> /\ IsWs(ts[Len(ts)]) THEN token_rstrip(SubSeq(ts, 1, Len(ts) - 1)) ELSE ts

token_strip(ts) == token_rstrip(token_lstrip(ts))

NoGroup == [found |-> FALSE, group |-> <<>>]

\* "label\s*<<<": the place of the "<<<" for the label at i, 0 if there is none
OpenAt(b, i) ==
    LET js == {j \in (i + 1)..Len(b) :
                  b[j] = "<<<" /\ \A q \in (i + 1)..(j - 1) : IsWs(b[q])}
    IN  IF js = {} THEN 0 ELSE CHOOSE j \in js : TRUE

\* the leftmost label for which ends(j) is not empty, and the least end for it
FirstGroup(b, label, ends(_)) ==
    LET starts == {i \in 1..Len(b) :
                      b[i] = label /\ OpenAt(b, i) # 0 /\ ends(OpenAt(b, i)) # {}}
    IN  IF starts = {} THEN NoGroup
        ELSE LET i == CHOOSE x \in starts : \A y \in starts : x <= y
                 j == OpenAt(b, i)
                 g == CHOOSE x \in ends(j) : \A y \in ends(j) : x <= y
             IN  [found |-> TRUE, group |-> SubSeq(b, j + 1, g)]

\* r'label\s*<<<(.*?)>>>': the group ends before the first ">>>"
lenient_match(b, label) ==
    LET ends(j) == {g \in j..Len(b) : g + 1 <= Len(b) /\ b[g + 1] = ">>>"}
    IN  FirstGroup(b, label, ends)

\* the strict pattern without its two newlines
strict_match_without_newlines(b, label) ==
    LET ends(j) == {g \in j..Len(b) : g + 1 <= Len(b) /\ b[g + 1] = ">>>"}
    IN  FirstGroup(b, label, ends)

\* r'label\s*\n?\s*<<<\s*\n(.*?)\n\s*>>>': the group starts after a newline in
\* the whitespace that follows "<<<", the last one possible, and ends before the
\* first newline that only whitespace separates from a ">>>"
strict_match(b, label) ==
    LET closes(e) == /\ e + 1 <= Len(b)
                     /\ b[e + 1] = "NL"
                     /\ \E m \in (e + 2)..Len(b) :
                            b[m] = ">>>" /\ \A q \in (e + 2)..(m - 1) : IsWs(b[q])
        begins(j, k) == /\ b[k - 1] = "NL"
                        /\ \A q \in (j + 1)..(k - 1) : IsWs(b[q])
        groups(j) == {ke \in ((j + 2)..(Len(b) + 1)) \X ((j + 1)..Len(b)) :
                         begins(j, ke[1]) /\ ke[2] >= ke[1] - 1 /\ closes(ke[2])}
        starts == {i \in 1..Len(b) :
                      b[i] = label /\ OpenAt(b, i) # 0 /\ groups(OpenAt(b, i)) # {}}
    IN  IF starts = {} THEN NoGroup
        ELSE LET i == CHOOSE x \in starts : \A y \in starts : x <= y
                 gs == groups(OpenAt(b, i))
                 k == CHOOSE x \in {ke[1] : ke \in gs} : \A ke \in gs : ke[1] <= x
                 e == CHOOSE x \in {ke[2] : ke \in {g \in gs : g[1] = k}} :
                          \A ke \in {g \in gs : g[1] = k} : x <= ke[2]
             IN  [found |-> TRUE, group |-> SubSeq(b, k, e)]

\* r'OLD:\s*<<<(.*?)(?:<<<\s*)?NEW:'
fallback_old_match(b) ==
    LET ends(j) == {g \in j..Len(b) :
                       /\ g + 1 <= Len(b)
                       /\ \/ b[g + 1] = "NEW:"
                          \/ /\ b[g + 1] = "<<<"
                             /\ \E m \in (g + 2)..Len(b) :
                                    b[m] = "NEW:" /\ \A q \in (g + 2)..(m - 1) : IsWs(b[q])}
    IN  FirstGroup(b, "OLD:", ends)

\* r'NEW:\s*<<<(.*?)(?:<<<\s*)?$': "$" is the end of the body or the place
\* before its last newline
fallback_new_match(b) ==
    LET ends(j) == {g \in j..Len(b) :
                       \/ g = Len(b)
                       \/ g = Len(b) - 1 /\ b[Len(b)] = "NL"
                       \/ /\ b[g + 1] = "<<<"
                          /\ \A q \in (g + 2)..Len(b) : IsWs(b[q])}
    IN  FirstGroup(b, "NEW:", ends)

\* parse_edit_file_with_fallback: (old_str, new_str, warnings) or ValueError
parse_edit_file_with_fallback(b) ==
    LET old_strict == lenient_match(b, "OLD:")
        old_fallback == IF ~old_strict.found /\ (\E i \in 1..Len(b) : b[i] = "NEW:")
                        THEN fallback_old_match(b)
                        ELSE NoGroup
        old_match == IF old_fallback.found THEN old_fallback ELSE old_strict
        new_strict == lenient_match(b, "NEW:")
        new_fallback == IF ~new_strict.found THEN fallback_new_match(b) ELSE NoGroup
        new_match == IF new_fallback.found THEN new_fallback ELSE new_strict
        warnings == (IF old_fallback.found THEN <<"OLD block">> ELSE <<>>)
                    \o (IF new_fallback.found THEN <<"NEW block">> ELSE <<>>)
    IN  IF ~old_match.found
        THEN [status |-> "Could not find OLD block", old_str |-> <<>>, new_str |-> <<>>,
              warnings |-> <<>>]
        ELSE IF ~new_match.found
        THEN [status |-> "Could not find NEW block", old_str |-> <<>>, new_str |-> <<>>,
              warnings |-> <<>>]
        ELSE [status |-> "ok", old_str |-> token_strip(old_match.group),
              new_str |-> token_strip(new_match.group), warnings |-> warnings]

NoPatternResult ==
    [strict |-> NoGroup, lenient |-> NoGroup,
     fallback |-> [status |-> "none", old_str |-> <<>>, new_str |-> <<>>, warnings |-> <<>>]]

\* the body is given to the strict and the lenient OLD pattern and to
\* parse_edit_file_with_fallback
RunPatterns ==
    /\ pattern_input.family # "none"
    /\ pattern_result.fallback.status = "none"
    /\ LET b == PatternBody(pattern_input)
       IN  pattern_result' = [strict |-> strict_match(b, "OLD:"),
                              lenient |-> lenient_match(b, "OLD:"),
                              fallback |-> parse_edit_file_with_fallback(b)]
    /\ UNCHANGED pattern_input
    /\ UNCHANGED <<editVars, pathVars, parseVars, pruneVars, loopVars, resultVars,
                   commandVars, patchVars, writeVars, blockVars, multiVars>>

(***************************************************************************)
(* tool_edit_multiple                                                      *)
(***************************************************************************)
\* an entry of the array: an object whose edit tool_edit_file performs, an
\* object whose edit it refuses, something that is not an object, an object
\* without one of file/old/new, an object whose path leaves the repository
EditKinds == {"edit_applies", "edit_fails", "not_an_object", "missing_fields", "escapes"}
EditEntries == [kind : EditKinds, file : {"a.c", "b.c"}]
EditPayloads ==
    [json : {"array"}, edits : SeqsUpTo(EditEntries, MaxEdits)]
    \cup [json : {"invalid", "not_an_array"}, edits : {<<>>}]

NotEdited == [msg |-> "none", modified |-> {}]

\* the loop over the entries: the first entry that is not valid ends the call
\* with an error, an entry before it has been handed to tool_edit_file
RECURSIVE apply_edits(_, _)
apply_edits(edits, modified) ==
    IF edits = <<>> THEN [msg |-> "EDIT_MULTIPLE_RESULT", modified |-> modified]
    ELSE LET edit == Head(edits)
         IN  IF edit.kind = "not_an_object"
             THEN [msg |-> "EDIT_MULTIPLE_ERROR_not_an_object", modified |-> modified]
             ELSE IF edit.kind = "missing_fields"
             THEN [msg |-> "EDIT_MULTIPLE_ERROR_missing_fields", modified |-> modified]
             ELSE IF edit.kind = "escapes"
             THEN [msg |-> "EDIT_MULTIPLE_ERROR_escapes", modified |-> modified]
             ELSE apply_edits(Tail(edits),
                              IF edit.kind = "edit_applies"
                              THEN modified \cup {edit.file} ELSE modified)

tool_edit_multiple_of(payload) ==
    IF payload.json = "invalid"
    THEN [msg |-> "EDIT_MULTIPLE_ERROR_invalid_json", modified |-> {}]
    ELSE IF payload.json = "not_an_array"
    THEN [msg |-> "EDIT_MULTIPLE_ERROR_not_an_array", modified |-> {}]
    ELSE apply_edits(payload.edits, {})

tool_edit_multiple ==
    /\ multi_payload.json # "none"
    /\ multi_result = NotEdited
    /\ multi_result' = tool_edit_multiple_of(multi_payload)
    /\ UNCHANGED multi_payload
    /\ UNCHANGED <<editVars, pathVars, parseVars, pruneVars, loopVars, resultVars,
                   commandVars, patchVars, writeVars, blockVars, patternVars>>

(***************************************************************************)
(* Specifications                                                          *)
(***************************************************************************)
IdleEdit ==
    /\ file = [kind |-> "missing", data |-> <<>>]
    /\ file0 = file
    /\ old_str = <<>>
    /\ new_str = <<>>
    /\ edit_result = [msg |-> "none", count |-> 0]

IdlePath ==
    /\ action = "none"
    /\ path = <<"">>
    /\ PathUntouched

IdleParse ==
    /\ llm_output = <<>>
    /\ parsed = NotParsed

IdlePrune ==
    /\ prune_in = <<>>
    /\ max_turns = 0
    /\ prune_stage = 0
    /\ pruned_once = <<>>
    /\ pruned_twice = <<>>

IdleLoop ==
    /\ history = <<>>
    /\ step = 0
    /\ pc = "idle"
    /\ needs_validation = FALSE
    /\ last_change_description = ""
    /\ retry = 0
    /\ ssh_validation_cmd = ""
    /\ last_reply = "none"
    /\ max_steps = 0
    /\ llm_calls = 0
    /\ tool = "none"
    /\ cycle = [commit |-> "none", validation |-> "none", notice |-> "none",
                outcome |-> "none"]
    /\ failed_validations = 0
    /\ counts = [commits_in_step |-> 0, validations_in_step |-> 0, validations |-> 0,
                 edits_ok |-> 0]
    /\ files = [last_edit |-> "none", checkout |-> "none"]

IdleResult ==
    /\ result_call = [tool |-> "none"]
    /\ result_chars = -1
    /\ result_notice = [shown |-> -1, total |-> -1, remaining |-> -1]
    /\ result_lines = [msg |-> "none", numbered |-> <<>>, end_idx |-> -1]

IdleCommand ==
    /\ command = <<"none">>
    /\ allowed_commands = {}
    /\ run_result = [msg |-> "none", started |-> FALSE, programs |-> {}]

IdlePatch ==
    /\ patch_text = <<"none">>
    /\ patch_result = [msg |-> "none", attempts |-> <<>>, logs |-> {}]

IdleWrite ==
    /\ write_path = [kind |-> "none", data |-> <<>>]
    /\ write_content = <<>>
    /\ write_result = "none"
    /\ read_result = [msg |-> "none", text |-> <<>>, truncated |-> FALSE]

IdleBlock ==
    /\ block_reply = [action |-> "none"]
    /\ block_parsed = [status |-> "none"]
    /\ block_turn = <<>>

IdlePattern ==
    /\ pattern_input = [family |-> "none"]
    /\ pattern_result = [fallback |-> [status |-> "none"]]

IdleMulti ==
    /\ multi_payload = [json |-> "none"]
    /\ multi_result = [msg |-> "none", modified |-> {}]

\* tool_edit_file on every file and every old and new text within the bounds
InitEdit ==
    /\ file \in ([kind : {"missing", "dir"}, data : {<<>>}]
                 \cup [kind : {"file"}, data : SeqsUpTo(Chars, MaxContentLen)])
    /\ file0 = file
    /\ old_str \in SeqsUpTo(Chars, MaxOldLen)
    /\ new_str \in SeqsUpTo(Chars, MaxNewLen)
    /\ edit_result = [msg |-> "none", count |-> 0]
    /\ IdlePath
    /\ IdleParse
    /\ IdlePrune
    /\ IdleLoop
    /\ IdleResult
    /\ IdleCommand
    /\ IdlePatch
    /\ IdleWrite
    /\ IdleBlock
    /\ IdlePattern
    /\ IdleMulti

NextEdit == tool_edit_file

SpecEdit == InitEdit /\ [][NextEdit]_vars

\* the sandbox on every path-bearing directive and every path within the bounds
InitPath ==
    /\ action \in PathActions
    /\ path \in Paths
    /\ PathUntouched
    /\ IdleEdit
    /\ IdleParse
    /\ IdlePrune
    /\ IdleLoop
    /\ IdleResult
    /\ IdleCommand
    /\ IdlePatch
    /\ IdleWrite
    /\ IdleBlock
    /\ IdlePattern
    /\ IdleMulti

NextPath == validate_relative_path \/ resolve_repo_path \/ DispatchPath

SpecPath == InitPath /\ [][NextPath]_vars

\* parse_action on every reply of up to MaxLines lines
InitParse ==
    /\ llm_output \in Replies
    /\ parsed = NotParsed
    /\ IdleEdit
    /\ IdlePath
    /\ IdlePrune
    /\ IdleLoop
    /\ IdleResult
    /\ IdleCommand
    /\ IdlePatch
    /\ IdleWrite
    /\ IdleBlock
    /\ IdlePattern
    /\ IdleMulti

NextParse == parse_action

SpecParse == InitParse /\ [][NextParse]_vars

\* prune_history, applied twice, on every transcript and budget within the bounds
InitPrune ==
    /\ prune_in \in SeqsUpTo({assistant_reply, user_turn}, MaxHistory)
    /\ max_turns \in 1..MaxBudget
    /\ prune_stage = 0
    /\ pruned_once = <<>>
    /\ pruned_twice = <<>>
    /\ IdleEdit
    /\ IdlePath
    /\ IdleParse
    /\ IdleLoop
    /\ IdleResult
    /\ IdleCommand
    /\ IdlePatch
    /\ IdleWrite
    /\ IdleBlock
    /\ IdlePattern
    /\ IdleMulti

NextPrune == PruneOnce \/ PruneTwice

SpecPrune == InitPrune /\ [][NextPrune]_vars

\* The runs of agent_loop that are explored: short runs with every kind of
\* validation command (none, a blank one, a real one), and long runs, in which
\* the transcript outgrows the budget of prune_history, without one
RunConfigurations ==
    {[cmd |-> c, steps |-> n, done |-> 0] :
        c \in {"", "blank", "validation_cmd"}, n \in 1..MaxRunSteps}
        \cup {[cmd |-> "", steps |-> MaxSteps, done |-> 0]}
        \cup {[cmd |-> "validation_cmd", steps |-> StepsDone + MaxRunSteps,
                done |-> StepsDone]}

\* the transcript after n steps in which the model asked to read a file
RECURSIVE ReadingSteps(_)
ReadingSteps(n) ==
    IF n = 0 THEN <<>> ELSE <<assistant_reply, user_turn>> \o ReadingSteps(n - 1)

\* agent_loop, from its first step, or from the head of the loop after
\* StepsDone steps in which the model only read files
Init ==
    /\ pc = "top"
    /\ needs_validation = FALSE
    /\ last_change_description = ""
    /\ retry = 0
    /\ \E run \in RunConfigurations :
           /\ ssh_validation_cmd = run.cmd
           /\ max_steps = run.steps
           /\ history = <<system_prompt, bootstrap>> \o ReadingSteps(run.done)
           /\ step = run.done + 1
           /\ llm_calls = run.done
           /\ last_reply = IF run.done = 0 THEN "none" ELSE "READ_FILE"
           /\ tool = IF run.done = 0 THEN "none" ELSE "returned"
    /\ cycle = NoCycle
    /\ failed_validations = 0
    /\ counts = [commits_in_step |-> 0, validations_in_step |-> 0, validations |-> 0,
                 edits_ok |-> 0]
    /\ files = [last_edit |-> "none", checkout |-> "none"]
    /\ IdleEdit
    /\ IdlePath
    /\ IdleParse
    /\ IdlePrune
    /\ IdleResult
    /\ IdleCommand
    /\ IdlePatch
    /\ IdleWrite
    /\ IdleBlock
    /\ IdlePattern
    /\ IdleMulti

Next ==
    \/ QueryLLM
    \/ EmptyReply
    \/ ParseError
    \/ UnknownAction
    \/ Halt
    \/ ToolAction
    \/ EditOrWrite
    \/ ValidationAttempt
    \/ MaxStepsReached

Spec == Init /\ [][Next]_vars

\* every tool call within the bounds
InitResult ==
    /\ result_call \in ToolCalls
    /\ result_chars = -1
    /\ result_notice = NoNotice
    /\ result_lines = NoLines
    /\ IdleEdit
    /\ IdlePath
    /\ IdleParse
    /\ IdlePrune
    /\ IdleLoop
    /\ IdleCommand
    /\ IdlePatch
    /\ IdleWrite
    /\ IdleBlock
    /\ IdlePattern
    /\ IdleMulti

NextResult == ToolResult

SpecResult == InitResult /\ [][NextResult]_vars

\* tool_run_command on every command and whitelist within the bounds
InitCommand ==
    /\ command \in Commands
    /\ allowed_commands \in Whitelists
    /\ run_result = NotRun
    /\ IdleEdit
    /\ IdlePath
    /\ IdleParse
    /\ IdlePrune
    /\ IdleLoop
    /\ IdleResult
    /\ IdlePatch
    /\ IdleWrite
    /\ IdleBlock
    /\ IdlePattern
    /\ IdleMulti

NextCommand == tool_run_command

SpecCommand == InitCommand /\ [][NextCommand]_vars

\* tool_apply_patch on every patch within the bounds
InitPatch ==
    /\ patch_text \in Patches
    /\ patch_result = NotPatched
    /\ IdleEdit
    /\ IdlePath
    /\ IdleParse
    /\ IdlePrune
    /\ IdleLoop
    /\ IdleResult
    /\ IdleCommand
    /\ IdleWrite
    /\ IdleBlock
    /\ IdlePattern
    /\ IdleMulti

NextPatch == tool_apply_patch

SpecPatch == InitPatch /\ [][NextPatch]_vars

\* every content within the bounds written to a path that is free, a directory
\* or a file, and read back
InitWrite ==
    /\ write_path \in ([kind : {"missing", "dir"}, data : {<<>>}]
                       \cup [kind : {"file"}, data : SeqsUpTo(Chars, MaxContentLen)])
    /\ write_content \in SeqsUpTo(Chars, MaxContentLen)
    /\ write_result = "none"
    /\ read_result = NotRead
    /\ IdleEdit
    /\ IdlePath
    /\ IdleParse
    /\ IdlePrune
    /\ IdleLoop
    /\ IdleResult
    /\ IdleCommand
    /\ IdlePatch
    /\ IdleBlock
    /\ IdlePattern
    /\ IdleMulti

NextWrite == tool_write_file \/ tool_read_file

SpecWrite == InitWrite /\ [][NextWrite]_vars

\* every EDIT_FILE and WRITE_FILE reply within the bounds is parsed
InitBlock ==
    /\ block_reply \in BlockReplies
    /\ block_parsed = BlockNotParsed
    /\ block_turn = <<>>
    /\ IdleEdit
    /\ IdlePath
    /\ IdleParse
    /\ IdlePrune
    /\ IdleLoop
    /\ IdleResult
    /\ IdleCommand
    /\ IdlePatch
    /\ IdleWrite
    /\ IdlePattern
    /\ IdleMulti

NextBlock == ParseReply

SpecBlock == InitBlock /\ [][NextBlock]_vars

\* every body within the bounds is given to the patterns
InitPattern ==
    /\ pattern_input \in PatternInputs
    /\ pattern_result = NoPatternResult
    /\ IdleEdit
    /\ IdlePath
    /\ IdleParse
    /\ IdlePrune
    /\ IdleLoop
    /\ IdleResult
    /\ IdleCommand
    /\ IdlePatch
    /\ IdleWrite
    /\ IdleBlock
    /\ IdleMulti

NextPattern == RunPatterns

SpecPattern == InitPattern /\ [][NextPattern]_vars

\* tool_edit_multiple on every payload within the bounds
InitMulti ==
    /\ multi_payload \in EditPayloads
    /\ multi_result = NotEdited
    /\ IdleEdit
    /\ IdlePath
    /\ IdleParse
    /\ IdlePrune
    /\ IdleLoop
    /\ IdleResult
    /\ IdleCommand
    /\ IdlePatch
    /\ IdleWrite
    /\ IdleBlock
    /\ IdlePattern

NextMulti == tool_edit_multiple

SpecMulti == InitMulti /\ [][NextMulti]_vars

\* the loop is not interrupted: every call it makes returns and it goes on
FairSpec == Spec /\ WF_vars(Next)

(***************************************************************************)
(* Properties                                                              *)
(***************************************************************************)
\* The positions at which sub occurs in text (overlapping occurrences included).
Occurrences(text, sub) ==
    {i \in 1..(Len(text) - Len(sub) + 1) : SubSeq(text, i, i + Len(sub) - 1) = sub}

EditCalled == edit_result.msg # "none"

\* C2: tool_edit_file reports success if and only if the target is an existing
\* file in which the old text occurs exactly once; with 0 occurrences and with 2
\* or more it fails, and with 2 or more the message names the occurrence count.
C2_SucceedsIffExactlyOnce ==
    EditCalled =>
        LET n == Cardinality(Occurrences(file0.data, old_str))
        IN  /\ (edit_result.msg = "EDIT_FILE_OK") <=> (file0.kind = "file" /\ n = 1)
            /\ (file0.kind = "file" /\ n >= 2) =>
                   (edit_result.msg = "EDIT_FILE_ERROR_appears_count_times"
                    /\ edit_result.count = n)

\* C3: a failed tool_edit_file leaves the target unchanged; a successful one
\* replaces the single occurrence of the old text by the new text and leaves
\* every other character of the file as it was.
C3_FrameOfEdit ==
    EditCalled =>
        IF edit_result.msg = "EDIT_FILE_OK"
        THEN /\ file0.kind = "file"
             /\ Cardinality(Occurrences(file0.data, old_str)) = 1
             /\ \E i \in Occurrences(file0.data, old_str) :
                    file.data = SubSeq(file0.data, 1, i - 1) \o new_str
                                \o Drop(file0.data, i - 1 + Len(old_str))
        ELSE file = file0

\* The directive a line states by itself: "ACTION:", blanks, a name, the rest
MarkerOf(line) ==
    IF line = <<>> \/ line[1] # "ACTION:" THEN NoMatch
    ELSE LET rest == lstrip(Tail(line))
         IN  IF rest = <<>> \/ ~IsUpperToken(rest[1]) \/ rest[1] = "ACTION:" THEN NoMatch
             ELSE [found |-> TRUE, line |-> 0, group1 |-> rest[1], group2 |-> Tail(rest)]

MarkerLines(lines) == {i \in 1..Len(lines) : MarkerOf(lines[i]).found}

LastMarker(lines) ==
    MarkerOf(lines[CHOOSE i \in MarkerLines(lines) : \A j \in MarkerLines(lines) : j <= i])

\* C1: for a reply with two or more marker lines parse_action returns the
\* directive of the last marker line (its name and its argument), or rejects
\* that line's path; it never returns anything else.
C1_LastMarkerWins ==
    (parsed.state # "none" /\ Cardinality(MarkerLines(llm_output)) >= 2) =>
        LET last == LastMarker(llm_output)
        IN  IF parsed.state = "returned"
            THEN parsed.action = last.group1 /\ parsed.argument = strip(last.group2)
            ELSE last.group1 = "READ_FILE" /\ parsed.state = "ValueError_absolute"

\* The location is the repository root or below it
InsideRoot(loc) == loc # <<>> /\ loc[1] = "r"

\* C4: for every path-bearing directive the control loop invokes the tool only
\* with a path inside the repository root; an argument that resolves outside
\* the root yields an error result and no tool operation.
C4_ToolsOnlyInsideRoot ==
    dispatched.state = "done" =>
        /\ dispatched.tool # "none" => InsideRoot(dispatched.at)
        /\ ~InsideRoot(ResolveUnderRoot(path)) =>
               (dispatched.tool = "none" /\ dispatched.turn # "tool_result")

\* The text of the path contains "/../"
ContainsDotDotSegment(p) == \E i \in 2..(Len(p) - 1) : p[i] = ".."

ClimbsAbove(p) ==
    \E k \in 1..Len(p) :
        Cardinality({i \in 1..k : p[i] = ".."})
            > Cardinality({i \in 1..k : p[i] \notin {"", ".", ".."}})

C6_ResolveStaysInside ==
    /\ resolved.state = "returned" =>
           (InsideRoot(resolved.target) /\ resolved.target = ResolveUnderRoot(path))
    /\ resolved.state = "ValueError" => ~InsideRoot(ResolveUnderRoot(path))
    /\ (dispatched.state = "done" /\ action \in ResolveDispatched) =>
           /\ dispatched.tool # "none" =>
                  (InsideRoot(dispatched.at) /\ dispatched.at = ResolveUnderRoot(path))
           /\ ~InsideRoot(ResolveUnderRoot(path)) => dispatched.tool = "none"

\* a path through the symlink, which passes the parse-time check, is refused at
\* dispatch
C6_Witness ==
    /\ dispatched.state = "done"
    /\ action \in ResolveDispatched
    /\ path = <<"l", "a">>
    /\ dispatched.parse = "ok"
    /\ dispatched.turn = "tool_error_outside_root"

\* C7: parse_action accepts a path-bearing directive without checking its path,
\* and a path that violates the sandbox is answered by that tool's error, not by
\* the corrective turn sent for a reply with no valid directive.
C7_PathCheckedAtDispatchOnly ==
    dispatched.state = "done" =>
        /\ dispatched.parse = "ok"
        /\ dispatched.turn # "corrective_no_valid_ACTION_line"

\* The transcript is within the budget: at most 2 * max_turns turns follow the
\* first two
WithinBudget(h, turns) == Len(h) - 2 <= 2 * turns

\* C8: prune_history is idempotent: pruning the pruned transcript again with the
\* same budget returns it as it is, and pruning a transcript that is within the
\* budget returns it unchanged.
C8_PruneIdempotent ==
    /\ prune_stage = 2 => pruned_twice = pruned_once
    /\ (prune_stage >= 1 /\ WithinBudget(prune_in, max_turns)) => pruned_once = prune_in

\* C9: for a budget N >= 1 prune_history keeps the first two turns; if more than
\* 2N turns follow them the result is those two, one notice that states the
\* number of dropped turns (the turns that follow, minus 2N), and the 2N most
\* recent turns in their order; otherwise the transcript is returned unchanged.
C9_PruneShape ==
    (prune_stage >= 1 /\ max_turns >= 1) =>
        LET n == Len(prune_in)
            m == 2 * max_turns
        IN  /\ \A i \in 1..2 : i <= n => pruned_once[i] = prune_in[i]
            /\ IF n - 2 > m
               THEN /\ Len(pruned_once) = 2 + 1 + m
                    /\ pruned_once[3] = summary(n - 2 - m, max_turns)
                    /\ \A i \in 1..m : pruned_once[3 + i] = prune_in[n - m + i]
               ELSE pruned_once = prune_in

\* a transcript from which two or more turns are dropped
C9_Witness ==
    /\ prune_stage >= 1
    /\ max_turns >= 1
    /\ Len(prune_in) - 2 >= 2 * max_turns + 2
    /\ pruned_once[3].pruned_count >= 2
    /\ pruned_once[4] # pruned_once[5]

\* C10: at every model call of agent_loop the system instructions and the
\* bootstrap document are the first two turns of the transcript, unchanged.
C10_PinnedTurns ==
    pc = "chat" =>
        /\ Len(history) >= 2
        /\ history[1] = system_prompt
        /\ history[2] = bootstrap

\* a model call on a transcript that has been pruned
C10_Witness ==
    /\ pc = "chat"
    /\ Len(history) = 2 + 1 + 2 * LoopMaxTurns
    /\ history[3].pruned_count > 0

\* The run is over
Terminated == pc \in {"halted", "max_steps_reached"}

C12_HaltTerminates ==
    /\ [](last_reply = "HALT" => (pc = "halted" /\ tool = "none" /\ cycle = NoCycle))
    /\ [][pc # "halted"]_vars

\* HALT while a change still waits for its validation
C12_Witness ==
    /\ pc = "halted"
    /\ needs_validation
    /\ llm_calls < max_steps

SoftErrors == {"empty", "parse_error", "unknown_action"}

C14_ExhaustedAfterThree ==
    (cycle.notice = "VALIDATION_FAILED" /\ failed_validations >= max_validation_retries)
        => (cycle.outcome = "exhausted" /\ pc = "top")

\* C15: with a validation command configured, every successful EDIT_FILE,
\* WRITE_FILE, EDIT_MULTIPLE and APPLY_PATCH is followed by a validation cycle
\* before the next model call.
C15_MutationsAreValidated ==
    (pc = "top" /\ ssh_validation_cmd = "validation_cmd"
        /\ last_reply \in MutatingActions /\ tool = "ok")
        => cycle # NoCycle

C17_CommitFailureSkips ==
    (cycle.commit # "none" /\ ~commit_success(cycle.commit)) =>
        (cycle.validation = "not_run" /\ cycle.notice = "none" /\ cycle.outcome = "skipped")

\* C18: whenever the validation command ends within its timeout with a non-zero
\* exit status, whatever it printed, a VALIDATION_FAILED turn is appended before
\* the next model call.
C18_FailureIsReported ==
    cycle.validation \in {"failed", "failed_mentions_timed_out"} =>
        /\ cycle.notice = "VALIDATION_FAILED"
        /\ history[Len(history)] = validation_turn

\* C19: at the start of every step the retry state is empty: no validation is
\* pending and the description of the last change is empty.
C19_RetryStateEmpty ==
    pc = "top" => (needs_validation = FALSE /\ last_change_description = "")

\* C20: no tool result exceeds a fixed size: none holds more characters of a
\* file, a payload or an output than the largest limit a tool applies.
C20_ResultsAreCapped ==
    result_chars <= git_diff_max_chars

\* C21: tool_run_command starts a process only if the leading token of the
\* command is an entry of the whitelist or has an entry as a prefix; for an empty
\* command and for a leading token that matches no entry it returns an error and
\* starts nothing.
C21_RunsOnlyWhitelisted ==
    run_result.msg # "none" =>
        /\ run_result.started =>
               (command # <<>> /\ Whitelisted(command[1], allowed_commands))
        /\ (command = <<>> \/ ~Whitelisted(command[1], allowed_commands)) =>
               /\ run_result.msg \in {"RUN_COMMAND_ERROR_empty",
                                      "RUN_COMMAND_ERROR_not_in_whitelist"}
               /\ ~run_result.started
               /\ run_result.programs = {}

\* a command run because an entry is a prefix of its leading token
C21_Witness ==
    /\ allowed_commands = {<<"s", "h">>}
    /\ command = <<<<"s", "h", "h">>, <<"h">>>>
    /\ run_result.started

\* C22: no program whose name is not an entry of allowed_commands is executed as
\* a result of a RUN_COMMAND directive.
C22_OnlyWhitelistedPrograms ==
    run_result.programs \subseteq allowed_commands

\* The patch, its fences removed, has a file header line
HasFileHeader(lines) == \E i \in 1..Len(lines) : lines[i] \in {"--- a/file", "+++ b/file"}

\* C23: a patch that has file header lines but no hunk header, or no added or
\* removed line, is rejected as incomplete before patch(1) is run.
C23_IncompleteRejected ==
    patch_result.msg # "none" =>
        LET lines == _strip_markdown_fences(patch_text)
        IN  (/\ HasFileHeader(lines)
             /\ \/ ~\E i \in 1..Len(lines) : lines[i] = "@@ -1 +1 @@"
                \/ ~\E i \in 1..Len(lines) : lines[i] \in {"+added", "-removed"})
            => (patch_result.msg = "APPLY_PATCH_ERROR_incomplete"
                /\ patch_result.attempts = <<>>)

\* C29: a patch that passes the completeness check is tried at strip level 1
\* first and at level 0 only if level 1 failed; the result is APPLY_PATCH_OK for
\* the first level that succeeds, otherwise a failure with the logs of both.
C29_StripLevelsInOrder ==
    patch_result.msg \in {"APPLY_PATCH_OK_p1", "APPLY_PATCH_OK_p0", "APPLY_PATCH_FAILED"} =>
        LET a == patch_result.attempts
        IN  /\ Len(a) \in {1, 2}
            /\ a[1].p_level = 1
            /\ Len(a) = 2 <=> a[1].rc # 0
            /\ Len(a) = 2 => a[2].p_level = 0
            /\ patch_result.msg = "APPLY_PATCH_OK_p1" <=> a[1].rc = 0
            /\ patch_result.msg = "APPLY_PATCH_OK_p0" <=> (Len(a) = 2 /\ a[2].rc = 0)
            /\ patch_result.msg = "APPLY_PATCH_FAILED" => patch_result.logs = {1, 0}

\* level 1 failed and level 0 applied the patch
C29_Witness ==
    /\ patch_result.msg = "APPLY_PATCH_OK_p0"
    /\ patch_result.attempts[1].rc = 1
    /\ Len(patch_text) = 4

\* C30: a file longer than the ceiling is shown up to the longest prefix of
\* whole lines that fits, with a notice whose counts satisfy shown + remaining
\* = total and remaining >= 1; a file within the ceiling is returned whole,
\* without a notice.
C30_TruncatesAtWholeLines ==
    (result_chars # -1 /\ result_call.tool = "READ_FILE") =>
        LET lines == result_call.lines
            n == result_notice
        IN  IF SumOf(lines) > read_file_max_chars
            THEN /\ n # NoNotice
                 /\ n.total = Len(lines)
                 /\ n.shown + n.remaining = n.total
                 /\ n.remaining >= 1
                 /\ n.shown >= 0
                 /\ result_chars = SumOf(SubSeq(lines, 1, n.shown))
                 /\ result_chars <= read_file_max_chars
                 /\ SumOf(SubSeq(lines, 1, n.shown + 1)) > read_file_max_chars
            ELSE /\ n = NoNotice
                 /\ result_chars = SumOf(lines)

\* two lines of 4000 fit, the third line does not
C30_Witness ==
    /\ result_call.tool = "READ_FILE"
    /\ result_call.lines = <<4000, 4000, 1>>
    /\ result_chars = 8000
    /\ result_notice = [shown |-> 2, total |-> 3, remaining |-> 1]

\* C26: a content within the read ceiling that tool_write_file wrote to a path
\* is what tool_read_file returns for that path, untruncated.
C26_WriteThenRead ==
    (/\ write_result = "WRITE_FILE_OK"
     /\ read_result.msg # "none"
     /\ Len(write_content) <= read_file_max_chars)
    => /\ read_result.msg = "READ_FILE_RESULT"
       /\ read_result.text = write_content
       /\ ~read_result.truncated

\* The blocks of the reply that are closed with "<<<"
Substituted(reply) ==
    (IF reply.old_close = "<<<" THEN 1 ELSE 0) + (IF reply.new_close = "<<<" THEN 1 ELSE 0)

\* C24: an EDIT_FILE reply whose OLD or NEW block is closed with "<<<" instead
\* of ">>>" is accepted, and the parsed result carries one warning for each
\* block closed that way.
C24_SubstitutedCloseWarned ==
    (/\ block_parsed.status # "none"
     /\ block_reply.action = "EDIT_FILE"
     /\ block_reply.old_close # "missing"
     /\ block_reply.new_close # "missing"
     /\ block_reply.old # <<>>
     /\ block_reply.new # <<>>
     /\ Substituted(block_reply) >= 1)
    => /\ block_parsed.status = "ok"
       /\ "warnings" \in DOMAIN block_parsed.value
       /\ Len(block_parsed.value.warnings) = Substituted(block_reply)

\* C25: when a block is not found, the error carries the preview of the body,
\* and the corrective turn appended to the transcript contains that preview.
C25_PreviewReachesTheModel ==
    block_parsed.status = "error" =>
        /\ block_parsed.error.preview # <<>>
        /\ block_parsed.error.preview[1] \in {"OLD:", "CONTENT:"}
        /\ \E k \in 1..Len(block_turn) :
               /\ k + Len(block_parsed.error.preview) - 1 <= Len(block_turn)
               /\ SubSeq(block_turn, k, k + Len(block_parsed.error.preview) - 1)
                      = block_parsed.error.preview

\* The text a block is meant to carry: its lines, without an enclosing pair of
\* fence lines
BlockTextOf(text) ==
    LET inner == IF Len(text) >= 2 /\ text[1] = "~~~fence" /\ text[Len(text)] = "~~~fence"
                 THEN SubSeq(text, 2, Len(text) - 1)
                 ELSE text
    IN  IF inner = <<>> THEN <<"">> ELSE inner

\* C28: the text between the delimiter lines of a block reaches the tool as it
\* was written, but for an enclosing pair of fence lines.
C28_BlockTextUnaltered ==
    (/\ block_parsed.status # "none"
     /\ block_reply.action = "EDIT_FILE" =>
            (block_reply.old_close = ">>>" /\ block_reply.new_close = ">>>")
     /\ block_reply.action = "WRITE_FILE" => block_reply.content_close = ">>>")
    => /\ block_parsed.status = "ok"
       /\ block_reply.action = "EDIT_FILE" =>
              /\ block_parsed.value.old_str = BlockTextOf(block_reply.old)
              /\ block_parsed.value.new_str = BlockTextOf(block_reply.new)
       /\ block_reply.action = "WRITE_FILE" =>
              block_parsed.value.content = BlockTextOf(block_reply.content)

\* C27: a reply leads to at most one tool dispatch, whose result is appended
\* to the transcript together with the reply; the model is called only from the
\* loop head, never while a change waits in the validation loop, and the last
\* turn it sees is the answer to its previous reply or the validation notice
\* that followed it.
C27_OneDirectiveAtATime ==
    [][/\ llm_calls' # llm_calls =>
              /\ pc = "top"
              /\ llm_calls' = llm_calls + 1
              /\ history[Len(history)].role = "user"
              /\ cycle.notice # "none" => history[Len(history)] = validation_turn
              /\ tool' = "none"
       /\ (tool' # tool /\ tool' # "none") =>
              /\ pc = "chat"
              /\ tool = "none"
              /\ history' = history \o <<assistant_reply, user_turn>>
       /\ pc = "chat" => pc' # "chat"
       /\ pc = "validation" => (llm_calls' = llm_calls /\ tool' = tool)]_vars

\* the model is called a second time after an edit whose validation failed
C27_Witness ==
    /\ pc = "chat"
    /\ llm_calls = 2
    /\ last_reply = "EDIT_FILE"
    /\ failed_validations = 1
    /\ history[Len(history)] = validation_turn

\* C31: tool_read_file_lines fails if start < 1, end < 1 or start is past the
\* last line; otherwise it returns the lines start..min(end, total), each with
\* its own line number, and reports min(end, total) as the end.
C31_InclusiveRange ==
    (result_chars # -1 /\ result_call.tool = "READ_FILE_LINES") =>
        LET lines == result_call.lines
            start == result_call.start
            end == result_call.end
            last == IF end < Len(lines) THEN end ELSE Len(lines)
            r == result_lines
        IN  IF start < 1 \/ end < 1 \/ start > Len(lines)
            THEN r.msg \in {"READ_FILE_LINES_ERROR_numbers", "READ_FILE_LINES_ERROR_start"}
                 /\ r.numbered = <<>>
            ELSE /\ r.msg = "READ_FILE_LINES_RESULT"
                 /\ r.end_idx = last
                 /\ {r.numbered[i].number : i \in 1..Len(r.numbered)} = start..last
                 /\ \A i \in 1..Len(r.numbered) :
                        /\ r.numbered[i].number = start + i - 1
                        /\ r.numbered[i].line = lines[r.numbered[i].number]

\* lines 2 and 3 of a file of three lines, asked for with an end past the file
C31_Witness ==
    /\ result_call.tool = "READ_FILE_LINES"
    /\ result_call.lines = <<1, 4000, 12000>>
    /\ result_call.start = 2
    /\ result_call.end = 4
    /\ result_lines.end_idx = 3
    /\ Len(result_lines.numbered) = 2

\* The blocks of the input that are closed with "<<<"
SubstitutedCloses(in) ==
    (IF in.old_close = "<<<" THEN 1 ELSE 0) + (IF in.new_close = "<<<" THEN 1 ELSE 0)

\* C32: for a body with an OLD block followed by a NEW block,
\* parse_edit_file_with_fallback returns as many warnings as blocks are closed
\* with "<<<", and the trimmed texts of the two blocks.
C32_OneWarningPerSubstitution ==
    (/\ pattern_result.fallback.status # "none"
     /\ pattern_input.family = "blocks"
     /\ pattern_input.old_close # "missing"
     /\ pattern_input.new_close # "missing")
    => /\ pattern_result.fallback.status = "ok"
       /\ Len(pattern_result.fallback.warnings) = SubstitutedCloses(pattern_input)
       /\ pattern_result.fallback.old_str = token_strip(pattern_input.old)
       /\ pattern_result.fallback.new_str = token_strip(pattern_input.new)

HasNewline(ts) == \E i \in 1..Len(ts) : ts[i] = "NL"
HasSpace(ts) == \E i \in 1..Len(ts) : ts[i] = "SP"
Newlines(ts) == Cardinality({i \in 1..Len(ts) : ts[i] = "NL"})

C34_ErrorChangesNothing ==
    multi_result.msg \in {"EDIT_MULTIPLE_ERROR_invalid_json", "EDIT_MULTIPLE_ERROR_not_an_array",
                          "EDIT_MULTIPLE_ERROR_not_an_object",
                          "EDIT_MULTIPLE_ERROR_missing_fields", "EDIT_MULTIPLE_ERROR_escapes"}
        => multi_result.modified = {}

\* C35: at every model call the transcript holds at most 33 entries: the two
\* pinned turns, at most one pruning notice, at most 30 recent turns; between
\* model calls it never holds more than 36.
C35_TranscriptIsBounded ==
    /\ Len(history) <= 2 + 1 + 2 * LoopMaxTurns + 3
    /\ pc = "chat" =>
           /\ Len(history) <= 2 + 1 + 2 * LoopMaxTurns
           /\ Cardinality({i \in 1..Len(history) :
                              history[i].content = "CONTEXT_MANAGEMENT_pruned_older_messages"})
                  <= 1
           /\ Len(history) = 2 + 1 + 2 * LoopMaxTurns =>
                  history[3].content = "CONTEXT_MANAGEMENT_pruned_older_messages"

\* a pruned transcript of 33 entries that a reply, a tool result and a
\* validation notice have brought to 36
C35_Witness ==
    /\ pc = "top"
    /\ Len(history) = 36
    /\ history[3].content = "CONTEXT_MANAGEMENT_pruned_older_messages"
    /\ history[36] = validation_turn

\* C37: at every model call the recent window, the entries after the two pinned
\* turns and the pruning notice, begins with an assistant turn.
C37_WindowStartsWithReply ==
    (pc = "chat" /\ Len(history) >= 4
     /\ history[3].content = "CONTEXT_MANAGEMENT_pruned_older_messages")
    => history[4].role = "assistant"

\* C36: in one step commit_and_push_changes and the validation command are each
\* run at most once; no validation is pending when a step begins; over the run
\* the validation command is run at most as often as EDIT_FILE and WRITE_FILE
\* succeeded.
C36_OneCyclePerEdit ==
    /\ counts.commits_in_step <= 1
    /\ counts.validations_in_step <= 1
    /\ counts.validations <= counts.edits_ok
    /\ (pc \in {"top", "chat"} /\ ssh_validation_cmd # "") => ~needs_validation
    /\ pc = "validation" => (tool = "ok" /\ last_reply \in {"EDIT_FILE", "WRITE_FILE"})

\* two edits, each followed by a run of the validation command
C36_Witness ==
    /\ pc = "top"
    /\ counts.validations = 2
    /\ counts.edits_ok = 2
    /\ counts.commits_in_step = 1
    /\ cycle.notice = "VALIDATION_FAILED"

\* The lines of a text that read as a directive at the left margin
DirectiveLines(text) == {i \in 1..Len(text) : ACTION_RE_Matches(text[i])}

\* the text holds a directive line among plain lines, nothing else
PlainWithDirective(text) ==
    /\ DirectiveLines(text) # {}
    /\ \A i \in 1..Len(text) : text[i] \in {"x", "ACTION: HALT"}

\* C38: when a correctly closed block of an EDIT_FILE or WRITE_FILE reply
\* holds a line of the form "ACTION: NAME", the parsed directive is still that
\* EDIT_FILE or WRITE_FILE, and its texts are the full texts of the blocks.
C38_PayloadIsData ==
    (/\ block_parsed.status # "none"
     /\ block_reply.action = "EDIT_FILE" =>
            /\ block_reply.old_close = ">>>"
            /\ block_reply.new_close = ">>>"
            /\ PlainWithDirective(block_reply.old)
            /\ block_reply.new = <<"x">>
     /\ block_reply.action = "WRITE_FILE" =>
            /\ block_reply.content_close = ">>>"
            /\ PlainWithDirective(block_reply.content))
    => /\ block_parsed.status = "ok"
       /\ block_parsed.value.action = block_reply.action
       /\ block_reply.action = "EDIT_FILE" =>
              /\ block_parsed.value.old_str = block_reply.old
              /\ block_parsed.value.new_str = block_reply.new
       /\ block_reply.action = "WRITE_FILE" =>
              block_parsed.value.content = block_reply.content

====
